---- MODULE Spec2Model ----
(***************************************************************************)
(* Blackjack round engine of terminal_games (src/blackJack.py).            *)
(*                                                                         *)
(* A card is the pair <<rank, suit>> standing for the string "rank-suit".  *)
(* A deck is a sequence of cards; deck.pop() takes the LAST element.       *)
(* One call play_blackjack_round(deck, rocks) is a state machine whose     *)
(* program counter pc stops at every input() prompt and at every loop      *)
(* iteration of the dealer (Spec, TensSpec). MainSpec adds the loop of      *)
(* mainBlackjack around the rounds.                                        *)
(***************************************************************************)
EXTENDS Integers, Sequences, FiniteSets, TLC

(* ------------------------------ bounds --------------------------------- *)
\* largest balance passed to a round
MaxRocks == 2
\* length of the deck handed to a round
DeckLen == 6
\* number of distinct outcomes of random.shuffle that are modelled
NumShuffles == 2
\* number of rounds one session of mainBlackjack may start
MaxRounds == 2
\* number of cards of the session's shoe below the cards dealt first
FillerLen == 59
\* number of deal_card calls made on one shoe
MaxDraws == 314

(* ----------------------------- constants ------------------------------- *)
SUITS == <<"Hearts", "Diamonds", "Clubs", "Spades">>
RANKS == <<"2", "3", "4", "5", "6", "7", "8", "9", "10", "J", "Q", "K", "A">>
NUM_DECKS == 6
DEALER_HIT_STAY_VALUE == 17

\* the cards the decks handed to a round are built from
DeckCards == {<<"A", "Spades">>, <<"K", "Hearts">>, <<"6", "Clubs">>}

\* multipliers coprime to 52 * n for every n up to NUM_DECKS:
\* i |-> (i * step + k) % (52 * n) is a permutation
ShuffleSteps == <<31, 7, 11, 17, 19, 23, 37, 29>>

(* ------------------------- deck management ----------------------------- *)
\* [f'{rank}-{suit}' for rank in RANKS for suit in SUITS] * num_decks
OrderedDeck(num_decks) ==
    [j \in 1..(Len(RANKS) * Len(SUITS) * num_decks) |->
        LET p == (j - 1) % (Len(RANKS) * Len(SUITS))
        IN  <<RANKS[(p \div Len(SUITS)) + 1], SUITS[(p % Len(SUITS)) + 1]>>]

\* random.shuffle: outcome number k of the shuffle, a permutation of the list
Shuffle(list, k) ==
    [j \in 1..Len(list) |-> list[(((j - 1) * ShuffleSteps[k] + k) % Len(list)) + 1]]

\* mutant: the list of one deck is not multiplied by num_decks
create_deck_OneDeck(num_decks, k) == Shuffle(OrderedDeck(1), k)

create_deck(num_decks, k) == Shuffle(OrderedDeck(num_decks), k)

\* the decks lambda: create_deck(NUM_DECKS) can return
FreshDecks == [k \in 1..NumShuffles |-> create_deck(NUM_DECKS, k)]

\* mutant: the shoe is refilled when its last card is about to be drawn
deal_card_RefillsEarly(d, k) ==
    LET full == IF Len(d) <= 1 THEN FreshDecks[k] ELSE d
    IN  [card |-> full[Len(full)], deck |-> SubSeq(full, 1, Len(full) - 1)]

\* deal_card(deck, reshuffle_func): the deck after the call and the card returned;
\* k selects the shuffle used if the deck is found empty
deal_card(d, k) ==
    LET full == IF d = <<>> THEN FreshDecks[k] ELSE d
    IN  [card |-> full[Len(full)], deck |-> SubSeq(full, 1, Len(full) - 1)]

\* the shuffles that n calls of deal_card on deck d can run: random.shuffle runs
\* only when a call finds the deck empty
ShufflesFor(d, n) == IF Len(d) < n THEN 1..NumShuffles ELSE {1}

get_rank(card) == card[1]

(* -------------------------- hand calculation --------------------------- *)
IsDigit(rank) == rank \in {"2", "3", "4", "5", "6", "7", "8", "9", "10"}

IntOf(rank) ==
    CASE rank = "2" -> 2 [] rank = "3" -> 3 [] rank = "4" -> 4 [] rank = "5" -> 5
      [] rank = "6" -> 6 [] rank = "7" -> 7 [] rank = "8" -> 8 [] rank = "9" -> 9
      [] rank = "10" -> 10

\* first pass of calculate_hand_value: what one rank adds to total
RankPoints(rank) ==
    IF IsDigit(rank) THEN IntOf(rank)
    ELSE IF rank \in {"J", "Q", "K"} THEN 10
    ELSE IF rank = "A" THEN 11
    ELSE 0

\* for rank in ranks: total += ...; total[n] is total after the first n cards
FirstPass(hand) ==
    LET total[n \in 0..Len(hand)] ==
            IF n = 0 THEN 0 ELSE total[n - 1] + RankPoints(get_rank(hand[n]))
    IN  total[Len(hand)]

AceCount(hand) == Cardinality({j \in 1..Len(hand) : get_rank(hand[j]) = "A"})

\* mutant: at most one ace is counted as 1
SoftenAces_Once(total, ace_count) ==
    IF total > 21 /\ ace_count > 0 THEN total - 10 ELSE total

\* second pass: while total > 21 and ace_count > 0: total -= 10; ace_count -= 1
RECURSIVE SoftenAces(_, _)
SoftenAces(total, ace_count) ==
    IF total > 21 /\ ace_count > 0 THEN SoftenAces(total - 10, ace_count - 1)
    ELSE total

\* mutant: only an ace dealt first may be counted as 1
calculate_hand_value_LeadingAce(hand) ==
    SoftenAces(FirstPass(hand),
               IF hand # <<>> /\ get_rank(hand[1]) = "A" THEN 1 ELSE 0)

calculate_hand_value(hand) == SoftenAces(FirstPass(hand), AceCount(hand))

\* mutant: any hand worth 21 is a blackjack
is_blackjack_AnyLength(hand) == calculate_hand_value(hand) = 21

is_blackjack(hand) == Len(hand) = 2 /\ calculate_hand_value(hand) = 21

(* ------------------------------- state --------------------------------- *)
VARIABLES
    deck,             \* the list passed to the round, mutated in place
    rocks_in,         \* the balance passed to play_blackjack_round
    rocks,            \* the local balance of the round
    bet,
    insurance_bet,
    player_hand,
    dealer_hand,
    player_blackjack,
    dealer_blackjack,
    can_split,
    can_double_down,
    split_hands,
    i,                \* index of the split hand being played (1-based)
    doubled_down,
    pc,               \* where the round is
    result,           \* what play_blackjack_round returned
    drawn,            \* history: number of deal_card calls of the round
    inputs,           \* history: the accepted decisions of the round, in order
    main_rocks,       \* rocks of mainBlackjack
    confirming,       \* confirm_quit is asking
    rounds            \* history: number of rounds mainBlackjack has started

vars == <<deck, rocks_in, rocks, bet, insurance_bet, player_hand, dealer_hand,
          player_blackjack, dealer_blackjack, can_split, can_double_down,
          split_hands, i, doubled_down, pc, result, drawn, inputs,
          main_rocks, confirming, rounds>>

\* the decks handed to a round: every list of DeckLen cards of DeckCards
InputDecks == [1..DeckLen -> DeckCards]

Pending == [kind |-> "pending", value |-> 0]
ReturnInt(n) == [kind |-> "int", value |-> n]
ReturnNone == [kind |-> "None", value |-> 0]

Init ==
    /\ deck \in InputDecks
    /\ rocks_in \in 1..MaxRocks
    /\ rocks = rocks_in
    /\ bet = 0
    /\ insurance_bet = 0
    /\ player_hand = <<>>
    /\ dealer_hand = <<>>
    /\ player_blackjack = FALSE
    /\ dealer_blackjack = FALSE
    /\ can_split = FALSE
    /\ can_double_down = FALSE
    /\ split_hands = <<>>
    /\ i = 0
    /\ doubled_down = FALSE
    /\ pc = "bet"
    /\ result = Pending
    /\ drawn = 0
    /\ inputs = <<>>
    /\ main_rocks = rocks_in
    /\ confirming = FALSE
    /\ rounds = 0

(* ------------------------------ inputs --------------------------------- *)
\* what the player can type at a y/n or h/s/d prompt, after .lower():
\* "quit" stands for 'quit', 'q', 'exit'; "?" for any other text
Choices == {"y", "n", "h", "s", "d", "quit", "?"}

\* what the player can type at the bet prompt: a quit word, an integer, other text
BetInputs ==
    {[kind |-> "quit", n |-> 0], [kind |-> "text", n |-> 0]}
        \cup {[kind |-> "int", n |-> v] : v \in (0 - 1)..(MaxRocks + 1)}

\* mutant: a bet above the balance is accepted
get_valid_bet_AboveBalance(balance, bet_input, confirm) ==
    IF bet_input.kind = "quit"
    THEN IF confirm THEN [ret |-> "quit", bet |-> 0 - 1] ELSE [ret |-> "again", bet |-> 0]
    ELSE IF bet_input.kind = "text" THEN [ret |-> "again", bet |-> 0]
    ELSE IF bet_input.n <= 0 THEN [ret |-> "again", bet |-> 0]
    ELSE [ret |-> "bet", bet |-> bet_input.n]

\* one pass of the loop of get_valid_bet: the value returned, or "again"
get_valid_bet(balance, bet_input, confirm) ==
    IF bet_input.kind = "quit"
    THEN IF confirm THEN [ret |-> "quit", bet |-> 0 - 1] ELSE [ret |-> "again", bet |-> 0]
    ELSE IF bet_input.kind = "text" THEN [ret |-> "again", bet |-> 0]
    ELSE IF bet_input.n <= 0 THEN [ret |-> "again", bet |-> 0]
    ELSE IF bet_input.n > balance THEN [ret |-> "again", bet |-> 0]
    ELSE [ret |-> "bet", bet |-> bet_input.n]

(* --------------------------- round arithmetic -------------------------- *)
\* mutant: the Ace is looked for in the dealer's second card
InsuranceOffered_HoleCard(dhand, balance, b) == get_rank(dhand[2]) = "A" /\ balance >= b \div 2

\* line 260: insurance is offered
InsuranceOffered(dhand, balance, b) == get_rank(dhand[1]) = "A" /\ balance >= b \div 2

\* line 274: insurance_bet = bet // 2
InsuranceStake(b) == b \div 2

\* lines 279-289: the value returned when insurance was taken and the dealer has
\* blackjack; balance is rocks after rocks -= insurance_bet
InsuredDealerBlackjackReturn(balance, b, ins, pbj) ==
    IF pbj THEN (balance + ins * 2) + b ELSE balance + ins * 2

\* mutant: the 3:2 payout rounded up instead of truncated
BlackjackPayout_RoundedUp(b) == (b * 3 + 1) \div 2

\* int(bet * 1.5) for bet >= 1
BlackjackPayout(b) == (b * 3) \div 2

\* mutant: the push on two naturals is not tested before the player's natural
ImmediateReturn_NoPush(balance, b, pbj, dbj) ==
    IF pbj THEN balance + BlackjackPayout(b)
    ELSE balance - b

\* lines 300-311: the value returned by the immediate blackjack check
ImmediateReturn(balance, b, pbj, dbj) ==
    IF pbj /\ dbj THEN balance
    ELSE IF pbj THEN balance + BlackjackPayout(b)
    ELSE balance - b

\* mutant: two cards of the same value count as a pair
CanSplit_SameValue(phand, balance, b) ==
    RankPoints(get_rank(phand[1])) = RankPoints(get_rank(phand[2])) /\ balance >= b

\* line 314
CanSplit(phand, balance, b) == get_rank(phand[1]) = get_rank(phand[2]) /\ balance >= b

\* line 316
CanDoubleDown(balance, b) == balance >= b

\* mutant: the bust returns the balance without taking the bet
BustReturn_KeepsBet(balance, b) == balance

\* line 430: the unsplit hand busts in the player loop
BustReturn(balance, b) == balance - b

\* line 446: bet *= 2
DoubledBet(b) == b * 2

\* line 456: the doubled hand busts
DoubleBustReturn(balance, b) == balance

\* mutant: the dealer also hits on 17
DealerMustHit_Through17(dhand) == calculate_hand_value(dhand) <= DEALER_HIT_STAY_VALUE

\* lines 385, 479: the dealer draws another card
DealerMustHit(dhand) == calculate_hand_value(dhand) < DEALER_HIT_STAY_VALUE

\* mutant: a tie is counted for the dealer
SettleReturn_TieLoses(balance, b, player_value, dealer_value) ==
    IF dealer_value > 21 THEN balance + b
    ELSE IF dealer_value >= player_value THEN balance - b
    ELSE balance + b

\* lines 494-505: settlement of the unsplit hand
SettleReturn(balance, b, player_value, dealer_value) ==
    IF dealer_value > 21 THEN balance + b
    ELSE IF dealer_value > player_value THEN balance - b
    ELSE IF dealer_value < player_value THEN balance + b
    ELSE balance

\* lines 400-412: what one split hand adds to total_winnings
SplitHandWinnings(hand_value, dealer_value, b) ==
    IF hand_value > 21 THEN 0
    ELSE IF dealer_value > 21 THEN b * 2
    ELSE IF hand_value > dealer_value THEN b * 2
    ELSE IF hand_value < dealer_value THEN 0
    ELSE b

\* lines 393-415
SplitReturn(balance, b, hands, dealer_value) ==
    balance + SplitHandWinnings(calculate_hand_value(hands[1]), dealer_value, b)
            + SplitHandWinnings(calculate_hand_value(hands[2]), dealer_value, b)

(* ------------------------------ actions -------------------------------- *)
\* a quit word at a prompt: confirm_quit is called (lines 187, 268, 331, 365, 437, 561)
AskConfirm ==
    /\ confirming' = TRUE
    /\ UNCHANGED <<deck, rocks_in, main_rocks, rounds, rocks, bet, insurance_bet,
                   player_hand, dealer_hand, player_blackjack, dealer_blackjack,
                   can_split, can_double_down, split_hands, i, doubled_down, pc,
                   result, drawn, inputs>>

\* confirm_quit returned True at a prompt of the round: return None; at the bet
\* prompt get_valid_bet returns -1 (line 189), which line 237 assigns to bet
QuitRound(prompt) ==
    /\ pc' = "done"
    /\ result' = ReturnNone
    /\ inputs' = Append(inputs, <<prompt, "quit">>)
    /\ bet' = IF prompt = "bet" THEN 0 - 1 ELSE bet
    /\ UNCHANGED <<deck, rocks_in, main_rocks, rounds, rocks, insurance_bet,
                   player_hand, dealer_hand, player_blackjack, dealer_blackjack,
                   can_split, can_double_down, split_hands, i, doubled_down, drawn>>

\* lines 237-241: one pass of bet = get_valid_bet(rocks), up to its return or to
\* the call of confirm_quit
PlaceBet ==
    /\ pc = "bet"
    /\ ~confirming
    /\ \E bet_input \in BetInputs :
        IF bet_input.kind = "quit" THEN AskConfirm
        ELSE LET r == get_valid_bet(rocks, bet_input, FALSE)
             IN  /\ bet' = IF r.ret = "bet" THEN r.bet ELSE bet
                 /\ pc' = IF r.ret = "bet" THEN "deal" ELSE pc
                 /\ inputs' = IF r.ret = "bet" THEN Append(inputs, <<"bet", "bet">>) ELSE inputs
                 /\ UNCHANGED <<deck, rocks_in, main_rocks, confirming, rounds, rocks,
                                insurance_bet, player_hand, dealer_hand, player_blackjack,
                                dealer_blackjack, can_split, can_double_down, split_hands,
                                i, doubled_down, result, drawn>>

\* mutant: the player is dealt the first two cards, the dealer the next two
InitialDeal_PlayerFirst ==
    /\ pc = "deal"
    /\ \E k \in ShufflesFor(deck, 4) :
        \E c1 \in {deal_card(deck, k)} :
        \E c2 \in {deal_card(c1.deck, k)} :
        \E c3 \in {deal_card(c2.deck, k)} :
        \E c4 \in {deal_card(c3.deck, k)} :
        LET ph == <<c1.card, c2.card>>
            dh == <<c3.card, c4.card>>
        IN  /\ deck' = c4.deck
            /\ player_hand' = ph
            /\ dealer_hand' = dh
            /\ player_blackjack' = is_blackjack(ph)
            /\ dealer_blackjack' = is_blackjack(dh)
            /\ pc' = IF InsuranceOffered(dh, rocks, bet) THEN "insurance" ELSE "immediate"
    /\ insurance_bet' = 0
    /\ drawn' = drawn + 4
    /\ UNCHANGED <<rocks_in, main_rocks, confirming, rounds,
                   rocks, bet, can_split, can_double_down, split_hands, i,
                   doubled_down, result, inputs>>

\* lines 243-260: the initial deal, the blackjack flags, and whether insurance is offered.
\* At most one of the four calls can find the deck empty, so one k serves them all.
InitialDeal ==
    /\ pc = "deal"
    /\ \E k \in ShufflesFor(deck, 4) :
        \E c1 \in {deal_card(deck, k)} :
        \E c2 \in {deal_card(c1.deck, k)} :
        \E c3 \in {deal_card(c2.deck, k)} :
        \E c4 \in {deal_card(c3.deck, k)} :
        LET ph == <<c1.card, c3.card>>
            dh == <<c2.card, c4.card>>
        IN  /\ deck' = c4.deck
            /\ player_hand' = ph
            /\ dealer_hand' = dh
            /\ player_blackjack' = is_blackjack(ph)
            /\ dealer_blackjack' = is_blackjack(dh)
            /\ pc' = IF InsuranceOffered(dh, rocks, bet) THEN "insurance" ELSE "immediate"
    /\ insurance_bet' = 0
    /\ drawn' = drawn + 4
    /\ UNCHANGED <<rocks_in, main_rocks, confirming, rounds,
                   rocks, bet, can_split, can_double_down, split_hands, i,
                   doubled_down, result, inputs>>

\* mutant: the stake is deducted only when the dealer has blackjack
TakeInsurance_StakeKept ==
    LET ins == InsuranceStake(bet)
        staked == rocks - ins
    IN  /\ insurance_bet' = ins
        /\ inputs' = Append(inputs, <<"insurance", "y">>)
        /\ IF dealer_blackjack
           THEN /\ rocks' = staked + ins * 2
                /\ result' = ReturnInt(InsuredDealerBlackjackReturn(staked, bet, ins, player_blackjack))
                /\ pc' = "done"
           ELSE /\ rocks' = rocks
                /\ pc' = "immediate"
                /\ UNCHANGED result
        /\ UNCHANGED <<deck, rocks_in, main_rocks, confirming, rounds,
                       bet, player_hand, dealer_hand, player_blackjack,
                       dealer_blackjack, can_split, can_double_down, split_hands, i,
                       doubled_down, drawn>>

\* lines 273-292: insurance_choice == 'y'
TakeInsurance ==
    LET ins == InsuranceStake(bet)
        staked == rocks - ins
    IN  /\ insurance_bet' = ins
        /\ inputs' = Append(inputs, <<"insurance", "y">>)
        /\ IF dealer_blackjack
           THEN /\ rocks' = staked + ins * 2
                /\ result' = ReturnInt(InsuredDealerBlackjackReturn(staked, bet, ins, player_blackjack))
                /\ pc' = "done"
           ELSE /\ rocks' = staked
                /\ pc' = "immediate"
                /\ UNCHANGED result
        /\ UNCHANGED <<deck, rocks_in, main_rocks, confirming, rounds,
                       bet, player_hand, dealer_hand, player_blackjack,
                       dealer_blackjack, can_split, can_double_down, split_hands, i,
                       doubled_down, drawn>>

\* lines 293-295: insurance_choice == 'n'
DeclineInsurance ==
    /\ pc' = "immediate"
    /\ inputs' = Append(inputs, <<"insurance", "n">>)
    /\ UNCHANGED <<deck, rocks_in, main_rocks, confirming, rounds,
                   rocks, bet, insurance_bet, player_hand, dealer_hand,
                   player_blackjack, dealer_blackjack, can_split, can_double_down,
                   split_hands, i, doubled_down, result, drawn>>

\* lines 264-297: the branches of the insurance prompt on one answer
InsuranceAnswer(choice) ==
    IF choice = "quit" THEN AskConfirm
    ELSE IF choice = "y" THEN TakeInsurance
    ELSE IF choice = "n" THEN DeclineInsurance
    ELSE UNCHANGED vars

\* lines 263-297: one pass of the insurance prompt loop
InsurancePrompt ==
    /\ pc = "insurance"
    /\ ~confirming
    /\ \E choice \in Choices : InsuranceAnswer(choice)

\* lines 299-322: the immediate blackjack check, then can_split and can_double_down
ImmediateCheck ==
    /\ pc = "immediate"
    /\ IF player_blackjack \/ dealer_blackjack
       THEN /\ result' = ReturnInt(ImmediateReturn(rocks, bet, player_blackjack, dealer_blackjack))
            /\ pc' = "done"
            /\ UNCHANGED <<can_split, can_double_down>>
       ELSE /\ can_split' = CanSplit(player_hand, rocks, bet)
            /\ can_double_down' = CanDoubleDown(rocks, bet)
            /\ pc' = IF CanSplit(player_hand, rocks, bet) THEN "split" ELSE "play"
            /\ UNCHANGED result
    /\ UNCHANGED <<deck, rocks_in, main_rocks, confirming, rounds,
                   rocks, bet, insurance_bet, player_hand, dealer_hand,
                   player_blackjack, dealer_blackjack, split_hands, i, doubled_down,
                   drawn, inputs>>

\* lines 337-349: split_choice == 'y', up to the first pass of the split loop
AcceptSplit(k) ==
    LET second_card == player_hand[Len(player_hand)]
        c1 == deal_card(deck, k)
        c2 == deal_card(c1.deck, k)
        hands == << <<player_hand[1], c1.card>>, <<second_card, c2.card>> >>
    IN  /\ split_hands' = hands
        /\ deck' = c2.deck
        /\ rocks' = rocks - bet
        /\ i' = 1
        /\ player_hand' = hands[1]
        /\ pc' = "split_play"
        /\ drawn' = drawn + 2
        /\ inputs' = Append(inputs, <<"split", "y">>)
        /\ UNCHANGED <<rocks_in, main_rocks, confirming, rounds,
                       bet, insurance_bet, dealer_hand, player_blackjack,
                       dealer_blackjack, can_split, can_double_down, doubled_down, result>>

\* lines 417-419: split_choice == 'n'
DeclineSplit ==
    /\ pc' = "play"
    /\ inputs' = Append(inputs, <<"split", "n">>)
    /\ UNCHANGED <<deck, rocks_in, main_rocks, confirming, rounds,
                   rocks, bet, insurance_bet, player_hand, dealer_hand,
                   player_blackjack, dealer_blackjack, can_split, can_double_down,
                   split_hands, i, doubled_down, result, drawn>>

\* lines 328-421: the branches of the split prompt on one answer
SplitAnswer(choice, k) ==
    IF choice = "quit" THEN AskConfirm
    ELSE IF choice = "y" THEN AcceptSplit(k)
    ELSE IF choice = "n" THEN DeclineSplit
    ELSE UNCHANGED vars

\* lines 327-421: one pass of the split prompt loop
SplitPrompt ==
    /\ pc = "split"
    /\ ~confirming
    /\ \E choice \in Choices, k \in ShufflesFor(deck, 2) : SplitAnswer(choice, k)

\* mutant: the dealer plays as soon as the first split hand is finished
FinishSplitHand_SkipsSecond ==
    /\ pc' = "split_dealer"
    /\ UNCHANGED <<i, player_hand>>
    /\ UNCHANGED <<deck, rocks_in, main_rocks, confirming, rounds,
                   rocks, bet, insurance_bet, dealer_hand,
                   player_blackjack, dealer_blackjack, can_split, can_double_down,
                   split_hands, doubled_down, result, drawn>>

\* lines 360/373 break, 378, then the next pass of the for loop (349) or the dealer (381)
FinishSplitHand ==
    /\ IF i < Len(split_hands)
       THEN /\ i' = i + 1
            /\ player_hand' = split_hands[i + 1]
            /\ pc' = "split_play"
       ELSE /\ pc' = "split_dealer"
            /\ UNCHANGED <<i, player_hand>>
    /\ UNCHANGED <<deck, rocks_in, main_rocks, confirming, rounds,
                   rocks, bet, insurance_bet, dealer_hand,
                   player_blackjack, dealer_blackjack, can_split, can_double_down,
                   split_hands, doubled_down, result, drawn>>

\* lines 356-360: the split hand being played is bust
SplitBust ==
    /\ pc = "split_play"
    /\ calculate_hand_value(player_hand) > 21
    /\ FinishSplitHand
    /\ UNCHANGED inputs

\* lines 369-371: choice == 'h' on a split hand (player_hand is split_hands[i] itself)
SplitHit(k) ==
    LET c == deal_card(deck, k)
    IN  /\ deck' = c.deck
        /\ player_hand' = Append(player_hand, c.card)
        /\ split_hands' = [split_hands EXCEPT ![i] = Append(player_hand, c.card)]
        /\ drawn' = drawn + 1
        /\ inputs' = Append(inputs, <<"split_play", "h">>)
        /\ UNCHANGED <<rocks_in, main_rocks, confirming, rounds,
                       rocks, bet, insurance_bet, dealer_hand, player_blackjack,
                       dealer_blackjack, can_split, can_double_down, i, doubled_down,
                       pc, result>>

\* lines 362-375: the branches of the prompt of a split hand on one answer
SplitHandAnswer(choice, k) ==
    IF choice = "quit" THEN AskConfirm
    ELSE IF choice = "h" THEN SplitHit(k)
    ELSE IF choice = "s"
         THEN FinishSplitHand /\ inputs' = Append(inputs, <<"split_play", "s">>)
    ELSE UNCHANGED vars

\* lines 355-375: one prompt of a split hand that is not bust
SplitChoice ==
    /\ pc = "split_play"
    /\ ~confirming
    /\ calculate_hand_value(player_hand) <= 21
    /\ \E choice \in Choices, k \in ShufflesFor(deck, 1) : SplitHandAnswer(choice, k)

\* lines 385-388: one pass of the dealer's loop after a split
SplitDealerHit ==
    /\ pc = "split_dealer"
    /\ DealerMustHit(dealer_hand)
    /\ \E k \in ShufflesFor(deck, 1) :
        LET c == deal_card(deck, k)
        IN  /\ deck' = c.deck
            /\ dealer_hand' = Append(dealer_hand, c.card)
    /\ drawn' = drawn + 1
    /\ UNCHANGED <<rocks_in, main_rocks, confirming, rounds,
                   rocks, bet, insurance_bet, player_hand, player_blackjack,
                   dealer_blackjack, can_split, can_double_down, split_hands, i,
                   doubled_down, pc, result, inputs>>

\* lines 390-415: the dealer's loop has ended; settle both split hands
SplitSettle ==
    /\ pc = "split_dealer"
    /\ ~DealerMustHit(dealer_hand)
    /\ result' = ReturnInt(SplitReturn(rocks, bet, split_hands, calculate_hand_value(dealer_hand)))
    /\ pc' = "done"
    /\ UNCHANGED <<deck, rocks_in, main_rocks, confirming, rounds,
                   rocks, bet, insurance_bet, player_hand, dealer_hand,
                   player_blackjack, dealer_blackjack, can_split, can_double_down,
                   split_hands, i, doubled_down, drawn, inputs>>

\* mutant: the bust hand leaves the player loop without a return
PlayerBust_FallsThrough ==
    /\ pc = "play"
    /\ calculate_hand_value(player_hand) > 21
    /\ pc' = "dealer"
    /\ UNCHANGED <<deck, rocks_in, main_rocks, confirming, rounds,
                   rocks, bet, insurance_bet, player_hand, dealer_hand,
                   player_blackjack, dealer_blackjack, can_split, can_double_down,
                   split_hands, i, doubled_down, drawn, inputs, result>>

\* lines 425-430: the unsplit hand is bust at the top of the player loop
PlayerBust ==
    /\ pc = "play"
    /\ calculate_hand_value(player_hand) > 21
    /\ result' = ReturnInt(BustReturn(rocks, bet))
    /\ pc' = "done"
    /\ UNCHANGED <<deck, rocks_in, main_rocks, confirming, rounds,
                   rocks, bet, insurance_bet, player_hand, dealer_hand,
                   player_blackjack, dealer_blackjack, can_split, can_double_down,
                   split_hands, i, doubled_down, drawn, inputs>>

\* mutant: the break after the double down is missing, the hand is prompted again
DoubleDown_KeepsPlaying(k) ==
    LET c == deal_card(deck, k)
        hand == Append(player_hand, c.card)
    IN  /\ rocks' = rocks - bet
        /\ bet' = DoubledBet(bet)
        /\ doubled_down' = TRUE
        /\ deck' = c.deck
        /\ player_hand' = hand
        /\ drawn' = drawn + 1
        /\ inputs' = Append(inputs, <<"play", "d">>)
        /\ IF calculate_hand_value(hand) > 21
           THEN /\ result' = ReturnInt(DoubleBustReturn(rocks - bet, DoubledBet(bet)))
                /\ pc' = "done"
           ELSE /\ pc' = "play"
                /\ UNCHANGED result
        /\ UNCHANGED <<rocks_in, main_rocks, confirming, rounds,
                       insurance_bet, dealer_hand, player_blackjack,
                       dealer_blackjack, can_split, can_double_down, split_hands, i>>

\* lines 443-457: choice == 'd' at the h/s/d prompt
DoubleDown(k) ==
    LET c == deal_card(deck, k)
        hand == Append(player_hand, c.card)
    IN  /\ rocks' = rocks - bet
        /\ bet' = DoubledBet(bet)
        /\ doubled_down' = TRUE
        /\ deck' = c.deck
        /\ player_hand' = hand
        /\ drawn' = drawn + 1
        /\ inputs' = Append(inputs, <<"play", "d">>)
        /\ IF calculate_hand_value(hand) > 21
           THEN /\ result' = ReturnInt(DoubleBustReturn(rocks - bet, DoubledBet(bet)))
                /\ pc' = "done"
           ELSE /\ pc' = "dealer"
                /\ UNCHANGED result
        /\ UNCHANGED <<rocks_in, main_rocks, confirming, rounds,
                       insurance_bet, dealer_hand, player_blackjack,
                       dealer_blackjack, can_split, can_double_down, split_hands, i>>

\* lines 468-469: choice == 'h'
Hit(k) ==
    LET c == deal_card(deck, k)
    IN  /\ deck' = c.deck
        /\ player_hand' = Append(player_hand, c.card)
        /\ drawn' = drawn + 1
        /\ inputs' = Append(inputs, <<"play", "h">>)
        /\ UNCHANGED <<rocks_in, main_rocks, confirming, rounds,
                       rocks, bet, insurance_bet, dealer_hand, player_blackjack,
                       dealer_blackjack, can_split, can_double_down, split_hands, i,
                       doubled_down, pc, result>>

\* lines 470-471: choice == 's'
Stand ==
    /\ pc' = "dealer"
    /\ inputs' = Append(inputs, <<"play", "s">>)
    /\ UNCHANGED <<deck, rocks_in, main_rocks, confirming, rounds,
                   rocks, bet, insurance_bet, player_hand, dealer_hand,
                   player_blackjack, dealer_blackjack, can_split, can_double_down,
                   split_hands, i, doubled_down, result, drawn>>

\* line 433: the prompt offers double down
DoubleOffered == Len(player_hand) = 2 /\ can_double_down

\* mutant: an answer that is not recognised is taken as a stand
PlayerAnswer_InvalidStands(choice, k) ==
    IF choice = "quit" THEN AskConfirm
    ELSE IF DoubleOffered /\ choice = "d" THEN DoubleDown(k)
    ELSE IF choice = "h" THEN Hit(k)
    ELSE Stand

\* lines 433-473: the branches of the prompt of the unsplit hand on one answer
PlayerAnswer(choice, k) ==
    IF choice = "quit" THEN AskConfirm
    ELSE IF DoubleOffered /\ choice = "d" THEN DoubleDown(k)
    ELSE IF choice = "h" THEN Hit(k)
    ELSE IF choice = "s" THEN Stand
    ELSE UNCHANGED vars

\* lines 424-473: one prompt of the unsplit hand that is not bust
PlayerChoice ==
    /\ pc = "play"
    /\ ~confirming
    /\ calculate_hand_value(player_hand) <= 21
    /\ \E choice \in Choices, k \in ShufflesFor(deck, 1) : PlayerAnswer(choice, k)

\* lines 476-482: one pass of the dealer's loop, entered only if the player is not bust
DealerHit ==
    /\ pc = "dealer"
    /\ calculate_hand_value(player_hand) <= 21
    /\ DealerMustHit(dealer_hand)
    /\ \E k \in ShufflesFor(deck, 1) :
        LET c == deal_card(deck, k)
        IN  /\ deck' = c.deck
            /\ dealer_hand' = Append(dealer_hand, c.card)
    /\ drawn' = drawn + 1
    /\ UNCHANGED <<rocks_in, main_rocks, confirming, rounds,
                   rocks, bet, insurance_bet, player_hand, player_blackjack,
                   dealer_blackjack, can_split, can_double_down, split_hands, i,
                   doubled_down, pc, result, inputs>>

\* lines 484-505: the dealer's loop has ended; with a bust player the function
\* falls off its end and returns None
Settle ==
    /\ pc = "dealer"
    /\ ~(calculate_hand_value(player_hand) <= 21 /\ DealerMustHit(dealer_hand))
    /\ result' = IF calculate_hand_value(player_hand) <= 21
                 THEN ReturnInt(SettleReturn(rocks, bet, calculate_hand_value(player_hand),
                                             calculate_hand_value(dealer_hand)))
                 ELSE ReturnNone
    /\ pc' = "done"
    /\ UNCHANGED <<deck, rocks_in, main_rocks, confirming, rounds,
                   rocks, bet, insurance_bet, player_hand, dealer_hand,
                   player_blackjack, dealer_blackjack, can_split, can_double_down,
                   split_hands, i, doubled_down, drawn, inputs>>

\* lines 562-563: confirm_quit returned True at the play-again prompt: return
QuitGame ==
    /\ pc' = "ended"
    /\ UNCHANGED <<deck, rocks_in, main_rocks, rounds, rocks, bet, insurance_bet,
                   player_hand, dealer_hand, player_blackjack, dealer_blackjack,
                   can_split, can_double_down, split_hands, i, doubled_down,
                   result, drawn, inputs>>

\* what the player can type at the prompt of confirm_quit, after .lower():
\* "y" stands for 'y', 'yes'; "n" for 'n', 'no'; "?" for any other text
Confirmations == {"y", "n", "?"}

\* mutant: the quit takes effect whatever the answer to the confirmation
confirm_quit_AnyAnswerQuits ==
    /\ confirming
    /\ \E confirm \in Confirmations :
        IF confirm \in {"y", "n"}
        THEN /\ confirming' = FALSE
             /\ IF pc = "again" THEN QuitGame ELSE QuitRound(pc)
        ELSE IF confirm = "n"
        THEN /\ confirming' = FALSE
             /\ UNCHANGED <<deck, rocks_in, main_rocks, rounds, rocks, bet, insurance_bet,
                            player_hand, dealer_hand, player_blackjack, dealer_blackjack,
                            can_split, can_double_down, split_hands, i, doubled_down,
                            pc, result, drawn, inputs>>
        ELSE UNCHANGED vars

\* lines 156-164: one pass of the loop of confirm_quit, and what its caller does
\* with the value returned
confirm_quit ==
    /\ confirming
    /\ \E confirm \in Confirmations :
        IF confirm = "y"
        THEN /\ confirming' = FALSE
             /\ IF pc = "again" THEN QuitGame ELSE QuitRound(pc)
        ELSE IF confirm = "n"
        THEN /\ confirming' = FALSE
             /\ UNCHANGED <<deck, rocks_in, main_rocks, rounds, rocks, bet, insurance_bet,
                            player_hand, dealer_hand, player_blackjack, dealer_blackjack,
                            can_split, can_double_down, split_hands, i, doubled_down,
                            pc, result, drawn, inputs>>
        ELSE UNCHANGED vars

Next ==
    \/ PlaceBet
    \/ InitialDeal
    \/ InsurancePrompt
    \/ ImmediateCheck
    \/ SplitPrompt
    \/ SplitBust
    \/ SplitChoice
    \/ SplitDealerHit
    \/ SplitSettle
    \/ PlayerBust
    \/ PlayerChoice
    \/ DealerHit
    \/ Settle
    \/ confirm_quit

Spec == Init /\ [][Next]_vars

\* rounds on decks that hold ten-valued cards of two ranks
TenCards == {<<"A", "Spades">>, <<"K", "Hearts">>, <<"10", "Clubs">>}

TenDecks == [1..DeckLen -> TenCards]

TensInit ==
    /\ deck \in TenDecks
    /\ rocks_in \in 1..MaxRocks
    /\ rocks = rocks_in
    /\ bet = 0
    /\ insurance_bet = 0
    /\ player_hand = <<>>
    /\ dealer_hand = <<>>
    /\ player_blackjack = FALSE
    /\ dealer_blackjack = FALSE
    /\ can_split = FALSE
    /\ can_double_down = FALSE
    /\ split_hands = <<>>
    /\ i = 0
    /\ doubled_down = FALSE
    /\ pc = "bet"
    /\ result = Pending
    /\ drawn = 0
    /\ inputs = <<>>
    /\ main_rocks = rocks_in
    /\ confirming = FALSE
    /\ rounds = 0

TensSpec == TensInit /\ [][Next]_vars

(* --------------------------- the shoe alone ---------------------------- *)
\* the locals of a round that has not begun
NoRound ==
    /\ rocks_in = 0
    /\ rocks = 0
    /\ bet = 0
    /\ insurance_bet = 0
    /\ dealer_hand = <<>>
    /\ player_blackjack = FALSE
    /\ dealer_blackjack = FALSE
    /\ can_split = FALSE
    /\ can_double_down = FALSE
    /\ split_hands = <<>>
    /\ i = 0
    /\ doubled_down = FALSE
    /\ inputs = <<>>
    /\ main_rocks = 0
    /\ confirming = FALSE
    /\ rounds = 0

\* a shoe just returned by create_deck(n), for every n up to NUM_DECKS
DeckInit ==
    /\ \E n \in 1..NUM_DECKS, k \in 1..NumShuffles : deck = create_deck(n, k)
    /\ player_hand = <<>>
    /\ result = Pending
    /\ drawn = 0
    /\ pc = "shoe"
    /\ NoRound

\* one call deal_card(deck, lambda: create_deck(NUM_DECKS)); player_hand holds
\* the card returned
DrawCard ==
    /\ pc = "shoe"
    /\ drawn < MaxDraws
    /\ \E k \in ShufflesFor(deck, 1) :
        LET c == deal_card(deck, k)
        IN  /\ deck' = c.deck
            /\ player_hand' = <<c.card>>
    /\ drawn' = drawn + 1
    /\ UNCHANGED <<rocks_in, main_rocks, confirming, rounds, rocks, bet, insurance_bet,
                   dealer_hand, player_blackjack, dealer_blackjack, can_split,
                   can_double_down, split_hands, i, doubled_down, pc, result, inputs>>

DeckNext == DrawCard

DeckSpec == DeckInit /\ [][DeckNext]_vars

(* ------------------------- the round played on -------------------------- *)
\* a step of the round other than a quit word, its confirmation, or a prompt
\* repeated after text it does not accept: a statement the interpreter runs
\* next, or a prompt answered with one of the decisions it accepts
Advance ==
    /\ Next
    /\ ~confirming'
    /\ result'.kind # "None"
    /\ <<pc, i, drawn, inputs>>' # <<pc, i, drawn, inputs>>

\* the round of a player who answers every confirmation of a quit and goes on
\* giving accepted decisions: the interpreter runs each statement it reaches
\* (Advance is taken when it stays possible), and input() returns at every
\* prompt, finally with an accepted answer (Advance is taken when it is
\* possible again and again)
RoundFairSpec == Init /\ [][Next]_vars /\ WF_vars(confirm_quit) /\ SF_vars(Advance)

(* --------------------------- one hand alone ---------------------------- *)
\* longest hand handed to calculate_hand_value and is_blackjack
MaxHandLen == 3

\* one card of every rank
HandCards == {<<RANKS[r], SUITS[(r % 4) + 1]>> : r \in 1..Len(RANKS)}

Hands == UNION {[1..n -> HandCards] : n \in 0..MaxHandLen}

\* a hand of up to MaxHandLen cards, not valued yet
HandInit ==
    /\ player_hand \in Hands
    /\ deck = <<>>
    /\ result = Pending
    /\ drawn = 0
    /\ pc = "hand"
    /\ NoRound

\* calculate_hand_value(player_hand) and is_blackjack(player_hand); neither
\* assigns to the list it is given
EvaluateHand ==
    /\ pc = "hand"
    /\ result' = ReturnInt(calculate_hand_value(player_hand))
    /\ player_blackjack' = is_blackjack(player_hand)
    /\ pc' = "valued"
    /\ UNCHANGED <<deck, player_hand, drawn, rocks_in, main_rocks, confirming, rounds,
                   rocks, bet, insurance_bet, dealer_hand, dealer_blackjack, can_split,
                   can_double_down, split_hands, i, doubled_down, inputs>>

\* the hand with cards j and j + 1 exchanged
Exchange(hand, j) ==
    [n \in 1..Len(hand) |-> IF n = j THEN hand[j + 1]
                            ELSE IF n = j + 1 THEN hand[j]
                            ELSE hand[n]]

\* the same cards in another order, valued again
RearrangeHand ==
    /\ pc = "valued"
    /\ \E j \in 1..(Len(player_hand) - 1) :
        /\ player_hand' = Exchange(player_hand, j)
        /\ result' = ReturnInt(calculate_hand_value(player_hand'))
        /\ player_blackjack' = is_blackjack(player_hand')
    /\ UNCHANGED <<deck, pc, drawn, rocks_in, main_rocks, confirming, rounds,
                   rocks, bet, insurance_bet, dealer_hand, dealer_blackjack, can_split,
                   can_double_down, split_hands, i, doubled_down, inputs>>

HandNext == EvaluateHand \/ RearrangeHand

HandSpec == HandInit /\ [][HandNext]_vars

(* ------------------------ the dealer's turn alone ----------------------- *)
\* longest of the short shoes a turn played alone starts on
MaxShoe == 3

\* the cards of the short shoes
ShoeCards == {<<"A", "Spades">>, <<"3", "Diamonds">>, <<"6", "Clubs">>, <<"K", "Hearts">>}

\* every shoe of up to MaxShoe cards, the empty one included: the next draw of
\* an empty shoe is the last card of a new shuffled shoe
ShortShoes == UNION {[1..n -> ShoeCards] : n \in 0..MaxShoe}

\* a shoe that hands out four aces, a 6 and five aces
AcesAroundSix ==
    [j \in 1..10 |-> IF j = 6 THEN <<"6", "Clubs">> ELSE <<"A", "Spades">>]

\* the dealer's two cards when the turn starts, in every combination of ranks,
\* and the shoe the turn draws from
DealerInit ==
    /\ dealer_hand \in [1..2 -> HandCards]
    /\ deck \in ShortShoes \cup {AcesAroundSix}
    /\ player_hand = <<>>
    /\ player_blackjack = FALSE
    /\ dealer_blackjack = FALSE
    /\ result = Pending
    /\ drawn = 0
    /\ pc = "dealer_turn"
    /\ rocks_in = 0 /\ rocks = 0 /\ bet = 0 /\ insurance_bet = 0
    /\ can_split = FALSE /\ can_double_down = FALSE /\ split_hands = <<>>
    /\ i = 0 /\ doubled_down = FALSE /\ inputs = <<>>
    /\ main_rocks = 0 /\ confirming = FALSE /\ rounds = 0

\* mutant: the dealer draws whatever the value of the hand
DealerDraw_IgnoresValue ==
    /\ pc = "dealer_turn"
    /\ calculate_hand_value(dealer_hand) < 27
    /\ \E k \in ShufflesFor(deck, 1) :
        \E c \in {deal_card(deck, k)} :
            /\ deck' = c.deck
            /\ dealer_hand' = Append(dealer_hand, c.card)
    /\ drawn' = drawn + 1
    /\ UNCHANGED <<player_hand, rocks_in, main_rocks, confirming, rounds, rocks, bet,
                   insurance_bet, player_blackjack, dealer_blackjack, can_split,
                   can_double_down, split_hands, i, doubled_down, inputs, result, pc>>

\* lines 479-482: one pass of while calculate_hand_value(dealer_hand) < 17:
\* deal_card pops the last card of the shoe, refilled first if it is empty
DealerDraw ==
    /\ pc = "dealer_turn"
    /\ DealerMustHit(dealer_hand)
    /\ \E k \in ShufflesFor(deck, 1) :
        \E c \in {deal_card(deck, k)} :
            /\ deck' = c.deck
            /\ dealer_hand' = Append(dealer_hand, c.card)
    /\ drawn' = drawn + 1
    /\ UNCHANGED <<player_hand, rocks_in, main_rocks, confirming, rounds, rocks, bet,
                   insurance_bet, player_blackjack, dealer_blackjack, can_split,
                   can_double_down, split_hands, i, doubled_down, inputs, result, pc>>

\* line 484: the loop has ended, dealer_value is taken
DealerStops ==
    /\ pc = "dealer_turn"
    /\ ~DealerMustHit(dealer_hand)
    /\ pc' = "dealer_done"
    /\ UNCHANGED <<deck, player_hand, rocks_in, main_rocks, confirming, rounds, rocks, bet,
                   insurance_bet, player_blackjack, dealer_blackjack, can_split,
                   can_double_down, split_hands, i, doubled_down, inputs, result, dealer_hand, drawn>>

DealerNext == DealerDraw \/ DealerStops

\* the interpreter runs the loop test and the loop body as soon as it reaches them
DealerSpec == DealerInit /\ [][DealerNext]_vars /\ WF_vars(DealerDraw) /\ WF_vars(DealerStops)

(* ------------------------ the player's turn alone ----------------------- *)
\* the cards a hand is made of in the turn played alone
TurnCards == ShoeCards

\* a shoe of twenty aces
AceShoe == [j \in 1..20 |-> <<"A", "Spades">>]

\* the two cards of a hand when its turn starts, and the shoe the turn draws
\* from; double down is not on offer
TurnInit ==
    /\ player_hand \in [1..2 -> TurnCards]
    /\ deck \in ShortShoes \cup {AceShoe}
    /\ result = Pending
    /\ drawn = 0
    /\ pc = "turn"
    /\ NoRound

\* lines 468-469, 369-371: choice == 'h': deal_card pops the last card of the
\* shoe, refilled first if it is empty
TurnHit(k) ==
    /\ \E c \in {deal_card(deck, k)} :
        /\ deck' = c.deck
        /\ player_hand' = Append(player_hand, c.card)
    /\ drawn' = drawn + 1
    /\ UNCHANGED <<dealer_hand, rocks_in, main_rocks, confirming, rounds, rocks, bet,
                   insurance_bet, player_blackjack, dealer_blackjack, can_split,
                   can_double_down, split_hands, i, doubled_down, inputs, pc, result>>

\* lines 470-471, 372-373: choice == 's'; line 476 takes the final value
TurnStand ==
    /\ pc' = "turn_stood"
    /\ result' = ReturnInt(calculate_hand_value(player_hand))
    /\ UNCHANGED <<deck, dealer_hand, rocks_in, main_rocks, confirming, rounds, rocks, bet,
                   insurance_bet, player_blackjack, dealer_blackjack, can_split,
                   can_double_down, split_hands, i, doubled_down, inputs, player_hand, drawn>>

\* mutant: a hand worth 21 is not prompted, it stands
TurnChoice_StandsOn21 ==
    /\ pc = "turn"
    /\ ~confirming
    /\ calculate_hand_value(player_hand) <= 21
    /\ IF calculate_hand_value(player_hand) = 21 THEN TurnStand
       ELSE \E choice \in Choices, k \in ShufflesFor(deck, 1) :
               IF choice = "quit" THEN AskConfirm
               ELSE IF choice = "h" THEN TurnHit(k)
               ELSE IF choice = "s" THEN TurnStand
               ELSE UNCHANGED vars

\* lines 459-473, 362-375: one prompt "Hit or Stand? (h/s)" of a hand that is not bust
TurnChoice ==
    /\ pc = "turn"
    /\ ~confirming
    /\ calculate_hand_value(player_hand) <= 21
    /\ \E choice \in Choices, k \in ShufflesFor(deck, 1) :
        IF choice = "quit" THEN AskConfirm
        ELSE IF choice = "h" THEN TurnHit(k)
        ELSE IF choice = "s" THEN TurnStand
        ELSE UNCHANGED vars

\* lines 425-430, 356-360: the hand is bust at the top of the loop
TurnBust ==
    /\ pc = "turn"
    /\ calculate_hand_value(player_hand) > 21
    /\ pc' = "turn_bust"
    /\ UNCHANGED <<deck, dealer_hand, rocks_in, main_rocks, confirming, rounds, rocks, bet,
                   insurance_bet, player_blackjack, dealer_blackjack, can_split,
                   can_double_down, split_hands, i, doubled_down, inputs, player_hand, drawn, result>>

\* the turn, and confirm_quit called from its prompt (lines 462-466, 365-369)
TurnNext == TurnChoice \/ TurnBust \/ confirm_quit

TurnSpec == TurnInit /\ [][TurnNext]_vars

(* ---------------------------- mainBlackjack ---------------------------- *)
\* mutant: the capacity is that of one deck
total_cards_in_deck_OneDeck == Len(OrderedDeck(1))

\* lines 525-526, 537-538: the size of the shoe that create_deck(NUM_DECKS) returns
total_cards_in_deck == Len(OrderedDeck(NUM_DECKS))

\* mutant: the shoe is renewed below a quarter of its capacity
BelowThreshold_Quarter(d) == Len(d) * 4 < total_cards_in_deck

\* line 535: len(current_deck) < total_cards_in_deck * RESHUFFLE_THRESHOLD, and
\* RESHUFFLE_THRESHOLD is 0.2
BelowThreshold(d) == Len(d) * 5 < total_cards_in_deck

\* mutant: only a negative balance is topped up
RoundBalance_OnlyNegative(balance) == IF balance < 0 THEN 50 ELSE balance

\* line 541-543: the balance the next round is played with
RoundBalance(balance) == IF balance <= 0 THEN 50 ELSE balance

\* the shoe of a session under way: the four cards of the initial deal on top,
\* below them the last FillerLen cards of two ordered decks (the four Aces
\* come next, then the four Kings, ...)
Filler == SubSeq(OrderedDeck(NUM_DECKS), 2 * 52 - FillerLen + 1, 2 * 52)

SessionDecks == {Filler \o d : d \in [1..(DeckLen - 2) -> DeckCards]}

\* mainBlackjack at the top of its loop (line 533), in a session under way
MainInit ==
    /\ deck \in SessionDecks
    /\ main_rocks \in 1..MaxRocks
    /\ rocks_in = 0
    /\ rocks = 0
    /\ bet = 0
    /\ insurance_bet = 0
    /\ player_hand = <<>>
    /\ dealer_hand = <<>>
    /\ player_blackjack = FALSE
    /\ dealer_blackjack = FALSE
    /\ can_split = FALSE
    /\ can_double_down = FALSE
    /\ split_hands = <<>>
    /\ i = 0
    /\ doubled_down = FALSE
    /\ pc = "loop"
    /\ result = Pending
    /\ drawn = 0
    /\ inputs = <<>>
    /\ confirming = FALSE
    /\ rounds = 0

\* lines 533-547: the threshold reshuffle, the emergency rocks, and the call of
\* play_blackjack_round up to its first prompt
StartRound ==
    /\ pc = "loop"
    /\ rounds < MaxRounds
    /\ \E k \in (IF BelowThreshold(deck) THEN 1..NumShuffles ELSE {1}) :
        deck' = IF BelowThreshold(deck) THEN create_deck(NUM_DECKS, k) ELSE deck
    /\ main_rocks' = RoundBalance(main_rocks)
    /\ rocks_in' = RoundBalance(main_rocks)
    /\ rocks' = RoundBalance(main_rocks)
    /\ bet' = 0
    /\ insurance_bet' = 0
    /\ player_hand' = <<>>
    /\ dealer_hand' = <<>>
    /\ player_blackjack' = FALSE
    /\ dealer_blackjack' = FALSE
    /\ can_split' = FALSE
    /\ can_double_down' = FALSE
    /\ split_hands' = <<>>
    /\ i' = 0
    /\ doubled_down' = FALSE
    /\ pc' = "bet"
    /\ result' = Pending
    /\ drawn' = 0
    /\ inputs' = <<>>
    /\ rounds' = rounds + 1
    /\ UNCHANGED confirming

\* lines 547-554: play_blackjack_round has returned; None ends the session with
\* the balance the round was called with
RoundReturns ==
    /\ pc = "done"
    /\ IF result.kind = "None"
       THEN /\ pc' = "ended"
            /\ UNCHANGED main_rocks
       ELSE /\ main_rocks' = result.value
            /\ pc' = "again"
    /\ UNCHANGED <<deck, rocks_in, confirming, rounds, rocks, bet, insurance_bet,
                   player_hand, dealer_hand, player_blackjack, dealer_blackjack,
                   can_split, can_double_down, split_hands, i, doubled_down,
                   result, drawn, inputs>>

\* lines 557-573: one pass of the play-again prompt loop
PlayAgain ==
    /\ pc = "again"
    /\ ~confirming
    /\ \E choice \in Choices :
        IF choice = "quit" THEN AskConfirm
        ELSE IF choice \in {"y", "n"}
        THEN /\ pc' = IF choice = "n" THEN "ended" ELSE "loop"
             /\ UNCHANGED <<deck, rocks_in, main_rocks, confirming, rounds, rocks, bet,
                            insurance_bet, player_hand, dealer_hand, player_blackjack,
                            dealer_blackjack, can_split, can_double_down, split_hands,
                            i, doubled_down, result, drawn, inputs>>
        ELSE UNCHANGED vars

MainNext ==
    \/ Next
    \/ StartRound
    \/ RoundReturns
    \/ PlayAgain

MainSpec == MainInit /\ [][MainNext]_vars

\* a shoe of 63 cards that lets a round draw many: the 24 Aces on top, the 24
\* twos below them, 15 threes at the bottom
LowShoe ==
    [j \in 1..63 |->
        <<IF j > 39 THEN "A" ELSE IF j > 15 THEN "2" ELSE "3", SUITS[(j % 4) + 1]>>]

\* mainBlackjack at the top of its loop with one of the shoes of MainInit or
\* with the shoe of low cards
LowShoeInit ==
    /\ deck \in SessionDecks \cup {LowShoe}
    /\ main_rocks \in 1..MaxRocks
    /\ player_hand = <<>>
    /\ result = Pending
    /\ drawn = 0
    /\ pc = "loop"
    /\ rocks_in = 0 /\ rocks = 0 /\ bet = 0 /\ insurance_bet = 0
    /\ dealer_hand = <<>> /\ player_blackjack = FALSE /\ dealer_blackjack = FALSE
    /\ can_split = FALSE /\ can_double_down = FALSE /\ split_hands = <<>>
    /\ i = 0 /\ doubled_down = FALSE /\ inputs = <<>>
    /\ confirming = FALSE /\ rounds = 0

LowShoeSpec == LowShoeInit /\ [][MainNext]_vars

(* ------------- play_blackjack_round of src/games/blackJack.py ----------- *)
\* lines 120-135: the player loop on the accepted choices still to come; the
\* deck and the hand when the loop is left, and whether by the bust return
RECURSIVE SimplePlayerTurn(_, _, _, _)
SimplePlayerTurn(d, hand, choices, k) ==
    IF calculate_hand_value(hand) > 21 THEN [deck |-> d, hand |-> hand, bust |-> TRUE]
    ELSE IF choices # <<>> /\ Head(choices) = "h"
    THEN LET c == deal_card(d, k)
         IN  SimplePlayerTurn(c.deck, Append(hand, c.card), Tail(choices), k)
    ELSE [deck |-> d, hand |-> hand, bust |-> FALSE]

\* mutant: the dealer of the simple variant also hits on 17
RECURSIVE SimpleDealerTurn_Through17(_, _, _)
SimpleDealerTurn_Through17(d, hand, k) ==
    IF calculate_hand_value(hand) <= DEALER_HIT_STAY_VALUE
    THEN LET c == deal_card(d, k)
         IN  SimpleDealerTurn_Through17(c.deck, Append(hand, c.card), k)
    ELSE [deck |-> d, hand |-> hand]

\* lines 141-144: the dealer's loop
RECURSIVE SimpleDealerTurn(_, _, _)
SimpleDealerTurn(d, hand, k) ==
    IF calculate_hand_value(hand) < DEALER_HIT_STAY_VALUE
    THEN LET c == deal_card(d, k)
         IN  SimpleDealerTurn(c.deck, Append(hand, c.card), k)
    ELSE [deck |-> d, hand |-> hand]

\* lines 106-118: the value returned by the immediate blackjack check
SimpleImmediateReturn(balance, b, pbj, dbj) ==
    IF pbj /\ dbj THEN balance
    ELSE IF pbj THEN balance + (b * 3) \div 2
    ELSE balance - b

\* lines 153-164: settlement
SimpleSettleReturn(balance, b, player_value, dealer_value) ==
    IF dealer_value > 21 THEN balance + b
    ELSE IF dealer_value > player_value THEN balance - b
    ELSE IF dealer_value < player_value THEN balance + b
    ELSE balance

\* lines 72-164: the round of the simple variant on deck d with balance, the
\* accepted bet b, the accepted h/s choices and shuffle k for an empty deck:
\* the value returned, the deck left and the two hands
SimpleRound(d, balance, b, choices, k) ==
    LET c1 == deal_card(d, k)
        c2 == deal_card(c1.deck, k)
        c3 == deal_card(c2.deck, k)
        c4 == deal_card(c3.deck, k)
        ph == <<c1.card, c3.card>>
        dh == <<c2.card, c4.card>>
        p  == SimplePlayerTurn(c4.deck, ph, choices, k)
        dl == SimpleDealerTurn(p.deck, dh, k)
    IN  IF is_blackjack(ph) \/ is_blackjack(dh)
        THEN [ret |-> SimpleImmediateReturn(balance, b, is_blackjack(ph), is_blackjack(dh)),
              deck |-> c4.deck, player_hand |-> ph, dealer_hand |-> dh]
        ELSE IF p.bust
        THEN [ret |-> balance - b, deck |-> p.deck, player_hand |-> p.hand,
              dealer_hand |-> dh]
        ELSE [ret |-> SimpleSettleReturn(balance, b, calculate_hand_value(p.hand),
                                         calculate_hand_value(dl.hand)),
              deck |-> dl.deck, player_hand |-> p.hand, dealer_hand |-> dl.hand]

(* ------------------------- vocabulary of the claims -------------------- *)
Took(prompt, choice) == \E j \in 1..Len(inputs) : inputs[j] = <<prompt, choice>>

Returned == pc = "done" /\ result.kind = "int"

\* the returned balance minus the balance passed in
Net == result.value - rocks_in

(* ------------------------------- C1 ------------------------------------ *)
\* C1: insurance taken, dealer natural blackjack, player none: the returned balance
\* minus the balance passed in equals (bet // 2) - bet.
C1_InsuredDealerBlackjackLosesMainBet ==
    (Returned /\ Took("insurance", "y") /\ dealer_blackjack /\ ~player_blackjack)
        => Net = (bet \div 2) - bet

(* ------------------------------- C2 ------------------------------------ *)
\* C2: insurance taken, dealer and player both natural blackjack: the main bet
\* pushes and the insurance pays 2x, so the net change is + bet // 2.
C2_InsuredBothBlackjackPushesMainBet ==
    (Returned /\ Took("insurance", "y") /\ dealer_blackjack /\ player_blackjack)
        => Net = bet \div 2

(* ------------------------------- C3 ------------------------------------ *)
\* what the claim gives one split hand staked B: +B win, -B loss or bust, 0 push
ClaimedHandNet(hand_value, dealer_value, B) ==
    IF hand_value > 21 THEN 0 - B
    ELSE IF dealer_value > 21 \/ hand_value > dealer_value THEN B
    ELSE IF hand_value < dealer_value THEN 0 - B
    ELSE 0

\* C3: after an accepted split the net balance change, ignoring the insurance
\* stake, is the sum over the two hands of +B (win), -B (loss or bust), 0 (push).
C3_SplitNetIsSumOfHands ==
    (Returned /\ Took("split", "y"))
        => Net + insurance_bet
             = ClaimedHandNet(calculate_hand_value(split_hands[1]),
                              calculate_hand_value(dealer_hand), bet)
               + ClaimedHandNet(calculate_hand_value(split_hands[2]),
                                calculate_hand_value(dealer_hand), bet)

(* ------------------------------- C4 ------------------------------------ *)
\* C4: after a double down on an original bet B (bet is 2B afterwards) the net
\* change, ignoring the insurance stake, is +2B on a win or dealer bust, -2B on a
\* loss or player bust, and 0 on a push.
C4_DoubleDownSettledAtTwiceTheBet ==
    (Returned /\ doubled_down)
        => Net + insurance_bet
             = ClaimedHandNet(calculate_hand_value(player_hand),
                              calculate_hand_value(dealer_hand), bet)

(* ------------------------------- C5 ------------------------------------ *)
\* C5: the step that doubles down makes bet exactly twice its value, draws exactly
\* one card into the 2-card player hand, and sends the round to the dealer turn, or
\* ends it if the 3-card hand is bust; after it the player is never prompted again.
C5_DoubleDownOneCardThenStand ==
    /\ [][(~doubled_down /\ doubled_down') =>
            /\ bet' = 2 * bet
            /\ Len(player_hand) = 2
            /\ Len(player_hand') = 3
            /\ SubSeq(player_hand', 1, 2) = player_hand
            /\ drawn' = drawn + 1
            /\ pc' = IF calculate_hand_value(player_hand') > 21 THEN "done" ELSE "dealer"]_vars
    /\ [](doubled_down => (pc \in {"dealer", "done"} /\ Len(player_hand) = 3))

C5_Witness ==
    /\ doubled_down
    /\ pc = "dealer"
    /\ bet = 2
    /\ calculate_hand_value(player_hand) <= 21

(* ------------------------------- C6 ------------------------------------ *)
\* C6: only the player holds a natural blackjack and no insurance stake was placed:
\* the round ends at once (4 cards drawn, no further prompt) and the net change n is
\* floor(3 * bet / 2), i.e. 2n <= 3 * bet < 2n + 2.
C6_PlayerBlackjackPaysThreeToTwoTruncated ==
    (player_blackjack /\ ~dealer_blackjack /\ insurance_bet = 0)
        => /\ pc \in {"insurance", "immediate", "done"}
           /\ drawn = 4
           /\ Returned => (2 * Net <= 3 * bet /\ 3 * bet < 2 * Net + 2)

C6_Witness ==
    /\ Returned
    /\ player_blackjack
    /\ ~dealer_blackjack
    /\ insurance_bet = 0
    /\ bet = 1
    /\ Net = 1

(* ------------------------------- C7 ------------------------------------ *)
\* C7: with no insurance taken, a natural blackjack on both sides nets 0 and one on
\* the dealer's side only nets -bet; with a natural on either side the round ends
\* with exactly 4 cards drawn, no split/hit/stand/double prompt and no dealer draw.
C7_ImmediateSettlementWithoutInsurance ==
    ((player_blackjack \/ dealer_blackjack) /\ ~Took("insurance", "y"))
        => /\ pc \in {"insurance", "immediate", "done"}
           /\ drawn = 4
           /\ Len(player_hand) = 2
           /\ Len(dealer_hand) = 2
           /\ \A j \in 1..Len(inputs) : inputs[j][1] \in {"bet", "insurance"}
           /\ (Returned /\ player_blackjack /\ dealer_blackjack) => Net = 0
           /\ (Returned /\ ~player_blackjack /\ dealer_blackjack) => Net = 0 - bet

C7_Witness ==
    /\ Returned
    /\ ~Took("insurance", "y")
    /\ player_blackjack
    /\ dealer_blackjack
    /\ get_rank(dealer_hand[1]) = "A"

(* ------------------------------- C8 ------------------------------------ *)
\* an unsplit, undoubled hand stood and was settled, no insurance stake
StoodSettled ==
    /\ Returned
    /\ Took("play", "s")
    /\ ~doubled_down
    /\ insurance_bet = 0

ExactlyOne(a, b, c, d) == Cardinality({n \in 1..4 : <<a, b, c, d>>[n]}) = 1

\* C8 as stated: +bet if d > 21, +bet if p > d, -bet if p < d, 0 if p = d, and
\* exactly one of the four cases applies.
C8_AsStated ==
    StoodSettled =>
        LET p == calculate_hand_value(player_hand)
            d == calculate_hand_value(dealer_hand)
        IN  /\ p <= 21
            /\ d > 21 => Net = bet
            /\ p > d => Net = bet
            /\ p < d => Net = 0 - bet
            /\ p = d => Net = 0
            /\ ExactlyOne(d > 21, p > d, p < d, p = d)

\* C8 (amended): +bet if d > 21, +bet if p > d, -bet if p < d <= 21, 0 if p = d,
\* and exactly one of these four cases applies.
C8_SettlementOfStoodHand ==
    StoodSettled =>
        LET p == calculate_hand_value(player_hand)
            d == calculate_hand_value(dealer_hand)
        IN  /\ p <= 21
            /\ d > 21 => Net = bet
            /\ p > d => Net = bet
            /\ (p < d /\ d <= 21) => Net = 0 - bet
            /\ p = d => Net = 0
            /\ ExactlyOne(d > 21, p > d, p < d /\ d <= 21, p = d)

C8_Witness ==
    /\ StoodSettled
    /\ calculate_hand_value(dealer_hand) > 21
    /\ Net = bet

(* ------------------------------- C9 ------------------------------------ *)
\* the unsplit, undoubled player hand is bust
BustUnsplit ==
    /\ ~Took("split", "y")
    /\ ~doubled_down
    /\ calculate_hand_value(player_hand) > 21

\* C9: when the unsplit hand busts after a hit its turn ends without a further
\* prompt, the dealer draws no card, and with no insurance stake the net is -bet.
C9_BustAfterHitLosesBetAtOnce ==
    /\ [](BustUnsplit =>
            /\ pc \in {"play", "done"}
            /\ Len(dealer_hand) = 2
            /\ pc = "done" => (result.kind = "int" /\ (insurance_bet = 0 => Net = 0 - bet)))
    /\ [][(BustUnsplit /\ pc = "play") =>
            /\ pc' = "done"
            /\ inputs' = inputs
            /\ drawn' = drawn
            /\ dealer_hand' = dealer_hand]_vars

C9_Witness ==
    /\ BustUnsplit
    /\ Returned
    /\ Took("play", "h")
    /\ insurance_bet = 0
    /\ calculate_hand_value(dealer_hand) < 17

(* ------------------------------- C10 ----------------------------------- *)
DealerTurn == pc \in {"dealer", "split_dealer"}

\* C10: in the dealer turn every step either draws exactly one card, which happens
\* exactly when the dealer's value is below 17, or ends the turn with no draw, which
\* happens exactly when the value is 17 or more (a soft 17 included); the value at
\* the end of the turn is at least 17.
C10_DealerDrawsExactlyBelowSeventeen ==
    [][DealerTurn =>
        LET v == calculate_hand_value(dealer_hand)
        IN  /\ v < 17 => /\ Len(dealer_hand') = Len(dealer_hand) + 1
                         /\ SubSeq(dealer_hand', 1, Len(dealer_hand)) = dealer_hand
                         /\ drawn' = drawn + 1
                         /\ pc' = pc
            /\ v >= 17 => /\ dealer_hand' = dealer_hand
                          /\ drawn' = drawn
                          /\ pc' = "done"
            /\ pc' = "done" => calculate_hand_value(dealer_hand') >= 17]_vars

C10_Witness ==
    /\ pc = "done"
    /\ Took("play", "s")
    /\ Len(dealer_hand) = 3
    /\ calculate_hand_value(SubSeq(dealer_hand, 1, 2)) = 16
    /\ calculate_hand_value(dealer_hand) = 17

(* ------------------------------- C11 ----------------------------------- *)
\* every hand the player holds is bust: the one hand of a round without split,
\* both hands of a split once the second has been played
AllHandsBust ==
    IF split_hands = <<>>
    THEN Len(player_hand) >= 2 /\ calculate_hand_value(player_hand) > 21
    ELSE /\ calculate_hand_value(split_hands[1]) > 21
         /\ calculate_hand_value(split_hands[2]) > 21

\* C11: in every round, split or not, if all of the player's hands are bust the
\* dealer holds no card beyond the initial two. Violated: after a split the
\* dealer's loop of lines 385-388 runs whether or not both hands are bust.
C11_DealerStaysWhenAllHandsBust ==
    AllHandsBust => Len(dealer_hand) = 2

(* ------------------------------- C12 ----------------------------------- *)
\* C12: at the bet prompt no card has been drawn and both hands are empty; an
\* integer bet with bet <= 0 or bet > balance is rejected; every step taken at
\* the bet prompt leaves the balance, the deck and both hands unchanged, and a
\* step that stays at the prompt changes nothing but the pending confirmation
\* of a quit; the round goes on to the initial deal only with 1 <= bet <= balance.
C12_BetWithinBalanceOrReprompt ==
    /\ [](pc = "bet" =>
            /\ drawn = 0 /\ player_hand = <<>> /\ dealer_hand = <<>>
            /\ \A bet_input \in BetInputs :
                   (bet_input.kind = "int" /\ (bet_input.n <= 0 \/ bet_input.n > rocks))
                       => get_valid_bet(rocks, bet_input, FALSE).ret = "again")
    /\ [][pc = "bet" =>
            /\ UNCHANGED <<rocks, deck, player_hand, dealer_hand, drawn>>
            /\ pc' \in {"bet", "deal", "done"}
            /\ (pc' = "bet" => UNCHANGED <<bet, insurance_bet, result, inputs, rocks_in>>)
            /\ (pc' = "deal" => 1 <= bet' /\ bet' <= rocks)]_vars
    /\ [](pc = "deal" => 1 <= bet /\ bet <= rocks /\ drawn = 0)

\* the whole balance has been accepted as the bet and nothing is dealt yet
C12_Witness ==
    /\ pc = "deal"
    /\ bet = rocks
    /\ rocks = MaxRocks
    /\ Len(deck) = DeckLen
    /\ player_hand = <<>>

(* ------------------------------- C13 ----------------------------------- *)
\* C13: the initial deal pops exactly four cards off the end of the deck; the
\* 1st and 3rd popped form the player hand in that order, the 2nd and 4th the
\* dealer hand, so dealer_hand[1] is the 2nd card drawn; until the first
\* decision after the deal both hands hold exactly two cards.
C13_InitialDealAlternates ==
    /\ [][pc = "deal" =>
            LET n == Len(deck)
            IN  /\ n >= 4
                /\ player_hand' = <<deck[n], deck[n - 2]>>
                /\ dealer_hand' = <<deck[n - 1], deck[n - 3]>>
                /\ deck' = SubSeq(deck, 1, n - 4)
                /\ drawn' = drawn + 4]_vars
    /\ [](pc \in {"insurance", "immediate"} =>
            Len(player_hand) = 2 /\ Len(dealer_hand) = 2 /\ drawn = 4)

\* the deal has just popped K, 6, 6, A: the player holds K, 6 and the dealer 6, A
C13_Witness ==
    /\ pc = "immediate"
    /\ inputs = << <<"bet", "bet">> >>
    /\ Len(deck) = DeckLen - 4
    /\ <<get_rank(player_hand[1]), get_rank(player_hand[2])>> = <<"K", "6">>
    /\ <<get_rank(dealer_hand[1]), get_rank(dealer_hand[2])>> = <<"6", "A">>

(* ------------------------------- C14 ----------------------------------- *)
\* C14: the step after the initial deal is the insurance prompt if and only if
\* the dealer's first card is an Ace and the balance is at least bet/2; at that
\* prompt nothing has been returned or staked yet; taking it stakes exactly
\* bet \div 2, at most half the bet, deducted from the balance at that step (and
\* paid back 2:1 on top of the stake at once if the dealer has blackjack); the
\* stake never changes afterwards and is the only deduction until a split or a
\* double down; when the dealer's first card is not an Ace there is no stake.
C14_InsuranceOfferedOnAceOnly ==
    /\ [][pc = "deal" =>
            (pc' = "insurance" <=> (dealer_hand'[1][1] = "A" /\ 2 * rocks >= bet))]_vars
    /\ [](pc = "insurance" =>
            /\ result = Pending /\ insurance_bet = 0 /\ rocks = rocks_in
            /\ dealer_hand[1][1] = "A")
    /\ [][(pc = "insurance" /\ inputs' = Append(inputs, <<"insurance", "y">>)) =>
            /\ insurance_bet' = bet \div 2
            /\ 2 * insurance_bet' <= bet
            /\ rocks' = IF dealer_blackjack THEN rocks - insurance_bet' + 2 * insurance_bet'
                                            ELSE rocks - insurance_bet']_vars
    /\ [][pc \notin {"deal", "insurance"} => insurance_bet' = insurance_bet]_vars
    /\ []((pc \notin {"done", "insurance"} /\ split_hands = <<>> /\ ~doubled_down) =>
            rocks = rocks_in - insurance_bet)
    /\ []((dealer_hand # <<>> /\ dealer_hand[1][1] # "A") =>
            /\ insurance_bet = 0
            /\ \A j \in 1..Len(inputs) : inputs[j][1] # "insurance")

\* insurance was taken for a stake of 1 on a bet of 2, the dealer has no
\* blackjack, and the hand is being played with the stake deducted
C14_Witness ==
    /\ pc = "play"
    /\ Took("insurance", "y")
    /\ bet = 2
    /\ insurance_bet = 1
    /\ rocks = rocks_in - 1

(* ------------------------------- C15 ----------------------------------- *)
\* the insurance bet was paid out: it was taken and the dealer has blackjack
InsurancePaid == Took("insurance", "y") /\ dealer_blackjack

\* the stakes other than insurance that the round has deducted so far
OtherStakes ==
    IF split_hands # <<>> THEN bet
    ELSE IF doubled_down THEN bet \div 2
    ELSE 0

\* the main-bet outcome of a round without split or double down
MainBetOutcome ==
    LET p == calculate_hand_value(player_hand)
        d == calculate_hand_value(dealer_hand)
    IN  IF player_blackjack /\ dealer_blackjack THEN 0
        ELSE IF player_blackjack THEN (3 * bet) \div 2
        ELSE IF dealer_blackjack THEN 0 - bet
        ELSE IF p > 21 THEN 0 - bet
        ELSE ClaimedHandNet(p, d, bet)

\* the main-bet outcome of the play that follows the insurance prompt: the sum
\* over both hands after a split, the outcome at the doubled bet after a double
\* down
SubsequentPlayOutcome ==
    IF split_hands # <<>>
    THEN ClaimedHandNet(calculate_hand_value(split_hands[1]),
                        calculate_hand_value(dealer_hand), bet)
         + ClaimedHandNet(calculate_hand_value(split_hands[2]),
                          calculate_hand_value(dealer_hand), bet)
    ELSE MainBetOutcome

\* C15: when insurance is declined, or taken and not paid out, the net balance
\* change of the round is the main-bet outcome of the subsequent play
\* (blackjack 3:2, win, loss, push) minus the insurance stake. Violated: after a
\* double down or a split the round returns one bet more or less than the
\* outcome of the play, with or without insurance (lines 344, 445, 404-412,
\* 494-505).
C15_NetIsOutcomeMinusStake ==
    (Returned /\ ~InsurancePaid /\ \E answer \in {"y", "n"} : Took("insurance", answer))
        => Net = SubsequentPlayOutcome - insurance_bet

\* the part of C15 that the code keeps: the answer at the insurance prompt
\* changes nothing but the balance (by the stake) and leads to the same
\* blackjack check; from then on the balance carries the stake exactly once,
\* whatever else the round stakes; and a round without split or double down
\* returns the main-bet outcome (blackjack 3:2, win, loss, push) minus the
\* stake.
C15_InsuranceLeavesMainBetFlow ==
    /\ [][(/\ pc = "insurance" /\ ~dealer_blackjack
            /\ \E answer \in {"y", "n"} : inputs' = Append(inputs, <<"insurance", answer>>)) =>
            /\ pc' = "immediate"
            /\ rocks' = rocks - insurance_bet'
            /\ insurance_bet' \in {0, bet \div 2}
            /\ UNCHANGED <<deck, bet, player_hand, dealer_hand, player_blackjack,
                           dealer_blackjack, split_hands, doubled_down, result, drawn>>]_vars
    /\ [](~InsurancePaid => rocks = rocks_in - insurance_bet - OtherStakes)
    /\ []((Returned /\ ~InsurancePaid /\ split_hands = <<>> /\ ~doubled_down) =>
            Net = MainBetOutcome - insurance_bet)

\* insurance was taken for 1 on a bet of 2, the dealer had no blackjack, the
\* player stood and won: the round nets 2 - 1
C15_Witness ==
    /\ Returned
    /\ Took("insurance", "y")
    /\ ~dealer_blackjack
    /\ insurance_bet = 1
    /\ Took("play", "s")
    /\ calculate_hand_value(player_hand) > calculate_hand_value(dealer_hand)
    /\ Net = 1

(* ------------------------------- C16 ----------------------------------- *)
\* C16: the split prompt is reached only with neither hand a natural blackjack,
\* two player cards of the same rank and balance >= bet; a hand of a 10 and a
\* King is never offered a split, and the first cards of two split hands always
\* share their rank; accepting makes two hands whose first cards
\* are the two original cards, in order, each with one newly popped card, so
\* both hold exactly 2 cards; the prompt is never reached again in the round.
C16_SplitOfferedOncePerPairOfEqualRank ==
    /\ [](pc = "split" =>
            /\ ~is_blackjack(player_hand) /\ ~is_blackjack(dealer_hand)
            /\ Len(player_hand) = 2
            /\ player_hand[1][1] = player_hand[2][1]
            /\ rocks >= bet
            /\ split_hands = <<>>)
    /\ []((/\ split_hands = <<>> /\ Len(player_hand) >= 2
            /\ {player_hand[1][1], player_hand[2][1]} = {"10", "K"}) => pc # "split")
    /\ [](split_hands # <<>> => split_hands[1][1][1] = split_hands[2][1][1])
    /\ [][(pc = "split" /\ inputs' = Append(inputs, <<"split", "y">>)) =>
            LET n == Len(deck)
            IN  /\ n >= 2
                /\ split_hands' = << <<player_hand[1], deck[n]>>,
                                     <<player_hand[2], deck[n - 1]>> >>
                /\ deck' = SubSeq(deck, 1, n - 2)
                /\ drawn' = drawn + 2
                /\ pc' = "split_play"]_vars
    /\ [][pc \notin {"immediate", "split"} => pc' # "split"]_vars
    /\ [](Cardinality({j \in 1..Len(inputs) : inputs[j][1] = "split"}) <= 1)

\* a pair of Kings has been split and each King has been dealt a 10
C16_Witness ==
    /\ pc = "split_play"
    /\ drawn = 6
    /\ Len(split_hands) = 2
    /\ <<split_hands[1][1][1], split_hands[1][2][1]>> = <<"K", "10">>
    /\ <<split_hands[2][1][1], split_hands[2][2][1]>> = <<"K", "10">>

\* the player holds a 10 and a King and is asked to hit or stand, not to split
C16_TenAndKingWitness ==
    /\ pc = "play"
    /\ Len(player_hand) = 2
    /\ {player_hand[1][1], player_hand[2][1]} = {"10", "K"}
    /\ rocks >= bet

(* ------------------------------- C17 ----------------------------------- *)
\* what a split hand of value h adds to the balance against the dealer value d
\* (the stake of the hand is paid back with a win or a push)
SplitHandPaid(h, d) ==
    IF h > 21 THEN 0
    ELSE IF d > 21 \/ h > d THEN 2 * bet
    ELSE IF h = d THEN bet
    ELSE 0

\* C17: while the split hands are played the dealer holds two cards; the hands
\* are played in order, only the hand in play changes, and the second becomes
\* the hand in play only when the first is bust or has stood; the dealer draws
\* only after the second hand is finished, in one turn that ends with the
\* return; and both hands are paid against the value of the same final dealer
\* hand.
C17_SplitHandsInOrderThenOneDealerTurn ==
    /\ [](pc = "split_play" =>
            /\ Len(dealer_hand) = 2
            /\ i \in {1, 2}
            /\ player_hand = split_hands[i]
            /\ (i = 1 => Len(split_hands[2]) = 2))
    /\ [][pc = "split_play" =>
            /\ i' >= i
            /\ \A j \in {1, 2} : j # i => split_hands'[j] = split_hands[j]
            /\ (i' > i =>
                    \/ calculate_hand_value(split_hands[1]) > 21
                    \/ inputs' = Append(inputs, <<"split_play", "s">>))
            /\ (pc' = "split_dealer" =>
                    /\ i = 2
                    /\ \/ calculate_hand_value(split_hands[2]) > 21
                       \/ inputs' = Append(inputs, <<"split_play", "s">>))]_vars
    /\ [][(split_hands # <<>> /\ dealer_hand' # dealer_hand) => pc = "split_dealer"]_vars
    /\ [](pc = "split_dealer" => i = 2)
    /\ [][pc = "split_dealer" =>
            /\ pc' \in {"split_dealer", "done"}
            /\ split_hands' = split_hands
            /\ (pc' = "done" =>
                    LET d == calculate_hand_value(dealer_hand)
                    IN  /\ dealer_hand' = dealer_hand
                        /\ d >= 17
                        /\ result'.kind = "int"
                        /\ result'.value = rocks
                              + SplitHandPaid(calculate_hand_value(split_hands[1]), d)
                              + SplitHandPaid(calculate_hand_value(split_hands[2]), d))]_vars

\* both split hands took a card, the dealer drew, and the round has returned
C17_Witness ==
    /\ Returned
    /\ Len(split_hands) = 2
    /\ Len(split_hands[1]) = 3
    /\ Len(split_hands[2]) = 3
    /\ calculate_hand_value(split_hands[2]) <= 21
    /\ Len(dealer_hand) = 3

(* ------------------------------- C18 ----------------------------------- *)
\* the hand in play is at its prompt
AtHandPrompt ==
    /\ pc \in {"play", "split_play"}
    /\ ~confirming
    /\ calculate_hand_value(player_hand) <= 21

\* the prompt accepts a double down
DoubleAvailable ==
    ENABLED (Next /\ \E prompt \in {"play", "split_play"} :
                        inputs' = Append(inputs, <<prompt, "d">>))

\* C18: at the prompt of every hand in play, a split hand included, double down
\* is available exactly when the hand has 2 cards and balance >= bet. Violated:
\* the prompt of a split hand (lines 362-375) accepts only hit and stand.
C18_DoubleDownOnEveryTwoCardHand ==
    AtHandPrompt =>
        (DoubleAvailable <=> (Len(player_hand) = 2 /\ rocks >= bet))

\* the part of C18 that the code keeps: on the hand of a round without split
C18_DoubleDownOnUnsplitHand ==
    (AtHandPrompt /\ pc = "play") =>
        (DoubleAvailable <=> (Len(player_hand) = 2 /\ rocks >= bet))

(* ------------------------------- C19 ----------------------------------- *)
\* the program waits at one of its decision points
AtDecisionPoint ==
    /\ ~confirming
    /\ \/ pc \in {"bet", "insurance", "split", "again"}
       \/ AtHandPrompt

\* the variables a quit request or a declined confirmation must leave alone
QuitFrame ==
    <<deck, rocks_in, main_rocks, rounds, rocks, bet, insurance_bet, player_hand,
      dealer_hand, player_blackjack, dealer_blackjack, can_split, can_double_down,
      split_hands, i, doubled_down, pc, result, drawn, inputs>>

\* C19: at every decision point (bet, insurance, split, the prompt of a regular
\* or a split hand, play-again) a quit request is accepted, and it only opens
\* the confirmation; the confirmation can be declined, and declining returns to
\* the same prompt with balance, bet, hands and deck unchanged and no card
\* drawn; a round is abandoned, and the session left from the play-again
\* prompt by a quit, only by a step of the confirmation, which changes nothing
\* else but the bet of a round left at the bet prompt, where it is -1.
C19_QuitNeedsConfirmation ==
    /\ [](AtDecisionPoint => ENABLED (MainNext /\ confirming' /\ UNCHANGED QuitFrame))
    /\ [][(~confirming /\ confirming') => (AtDecisionPoint /\ UNCHANGED QuitFrame)]_vars
    /\ [](confirming => ENABLED (MainNext /\ ~confirming' /\ UNCHANGED QuitFrame))
    /\ [][confirming =>
            \/ UNCHANGED QuitFrame
            \/ /\ ~confirming'
               /\ IF pc = "again" THEN pc' = "ended" /\ result' = result
                                  ELSE pc' = "done" /\ result' = ReturnNone
               /\ bet' = IF pc = "bet" THEN 0 - 1 ELSE bet
               /\ UNCHANGED <<deck, rocks_in, main_rocks, rocks, insurance_bet,
                              player_hand, dealer_hand, split_hands, drawn>>]_vars
    /\ [][(result' = ReturnNone /\ result # ReturnNone) => confirming]_vars

\* a quit was requested at the prompt of the second split hand after a hit and
\* waits for its confirmation
C19_Witness ==
    /\ confirming
    /\ pc = "split_play"
    /\ i = 2
    /\ Len(player_hand) = 3

\* a quit was requested at the play-again prompt and waits for its confirmation
C19_PlayAgainWitness ==
    /\ confirming
    /\ pc = "again"

(* ------------------------------- C20 ----------------------------------- *)
\* the session has ended on a quit confirmed in the middle of a round
QuitMidRound == pc = "ended" /\ result = ReturnNone

\* C20: after a quit confirmed in the middle of a round, the final balance of
\* the session is the balance at the start of the round minus the stakes that
\* had been deducted (insurance taken, split stake, double stake). Violated:
\* the round returns None, its deductions are lost with its local balance, and
\* mainBlackjack reports the balance the round was called with (line 551).
C20_QuitKeepsDeductedStakes ==
    QuitMidRound => main_rocks = rocks_in - insurance_bet - OtherStakes

\* what the code does instead: the final balance is the balance at round start
C20_QuitRestoresRoundStartBalance ==
    QuitMidRound => main_rocks = rocks_in

(* ------------------------------- C21 ----------------------------------- *)
\* the 52 rank-suit combinations
AllCards == {<<RANKS[r], SUITS[u]>> : r \in 1..Len(RANKS), u \in 1..Len(SUITS)}

Occurrences(d, card) == Cardinality({j \in 1..Len(d) : d[j] = card})

\* C21: a shoe just returned by create_deck(n) holds exactly n * 52 cards, each
\* of the 52 rank-suit combinations exactly n times; for n = NUM_DECKS = 6 it
\* holds 312 cards.
C21_CreateDeckHoldsEachCardNTimes ==
    /\ Cardinality(AllCards) = 52
    /\ (pc = "shoe" /\ drawn = 0) =>
            \E n \in 1..NUM_DECKS :
                /\ Len(deck) = n * 52
                /\ \A card \in AllCards : Occurrences(deck, card) = n
    /\ \A k \in 1..NumShuffles : Len(FreshDecks[k]) = 312

\* a shoe of six decks just created
C21_Witness ==
    /\ pc = "shoe"
    /\ drawn = 0
    /\ Len(deck) = 312
    /\ Occurrences(deck, <<"A", "Spades">>) = 6

(* ------------------------------- C22 ----------------------------------- *)
\* C22: every call of deal_card returns a card; on a non-empty shoe it removes
\* and returns the last card and nothing else; the shoe grows only in a call
\* that finds it empty, and that call leaves a full shoe of NUM_DECKS decks
\* less the card it returns; so the 313th draw from a fresh shoe of 312 cards
\* is the one reshuffle and leaves 311 cards.
C22_DealCardRefillsEmptyShoe ==
    /\ [][pc = "shoe" =>
            /\ player_hand' # <<>>
            /\ IF deck # <<>>
               THEN /\ deck' = SubSeq(deck, 1, Len(deck) - 1)
                    /\ player_hand' = <<deck[Len(deck)]>>
               ELSE /\ Len(deck') = 52 * NUM_DECKS - 1
                    /\ \A card \in AllCards :
                           Occurrences(deck' \o player_hand', card) = NUM_DECKS]_vars
    /\ [][(pc = "shoe" /\ Len(deck') >= Len(deck)) => deck = <<>>]_vars
    /\ [][(pc = "shoe" /\ drawn = 312 /\ deck = <<>>) =>
            (drawn' = 313 /\ Len(deck') = 311)]_vars
    /\ []((pc = "shoe" /\ drawn <= 312 /\ Len(deck) = 312 - drawn) =>
            (deck = <<>> <=> drawn = 312))

\* 313 cards were drawn from a shoe of 312: it was refilled once and holds 311
C22_Witness ==
    /\ pc = "shoe"
    /\ drawn = 313
    /\ Len(deck) = 311
    /\ Len(player_hand) = 1

(* ------------------------------- C23 ----------------------------------- *)
\* C23: when a round starts the shoe is replaced by a full shoe of 312 cards
\* exactly when 62 or fewer cards remain, and is left as it is otherwise; so
\* every bet is placed with at least 63 cards in the shoe; and from the bet to
\* the settlement the shoe only shrinks.
C23_ThresholdReshuffleOnlyBeforeRound ==
    /\ [][(pc = "loop" /\ pc' = "bet") =>
            IF Len(deck) <= 62
            THEN /\ Len(deck') = 52 * NUM_DECKS
                 /\ \E k \in 1..NumShuffles : deck' = FreshDecks[k]
            ELSE deck' = deck]_vars
    /\ [](pc = "bet" => Len(deck) >= 63)
    /\ [][pc # "loop" => (Len(deck') <= Len(deck) /\ Len(deck') >= Len(deck) - 4)]_vars
    /\ [][(pc = "loop" /\ pc' # "bet") => deck' = deck]_vars

\* a second round starts on a renewed shoe after the first left fewer than 63
C23_Witness ==
    /\ pc = "bet"
    /\ rounds = 2
    /\ Len(deck) = 52 * NUM_DECKS

(* ------------------------------- C24 ----------------------------------- *)
\* the total of a hand with every ace counted as 1
HardPoints(card) ==
    IF card[1] = "A" THEN 1
    ELSE IF card[1] \in {"10", "J", "Q", "K"} THEN 10
    ELSE CHOOSE n \in 2..9 : RANKS[n - 1] = card[1]

HardTotal(hand) ==
    LET sum[n \in 0..Len(hand)] == IF n = 0 THEN 0 ELSE sum[n - 1] + HardPoints(hand[n])
    IN  sum[Len(hand)]

\* the totals of a hand over every choice of 1 or 11 for each of its aces
Totals(hand) ==
    {HardTotal(hand) + 10 * a :
        a \in 0..Cardinality({j \in 1..Len(hand) : hand[j][1] = "A"})}

BestTotal(hand) ==
    LET fits == {t \in Totals(hand) : t <= 21}
    IN  IF fits # {} THEN CHOOSE t \in fits : \A u \in fits : u <= t
        ELSE HardTotal(hand)

\* C24: the value of every hand is its greatest total of at most 21 over the
\* choices of 1 or 11 for each ace, or its total with every ace as 1 when no
\* total is at most 21; ace, ace, 9 is 21 and ace, 5, 10 is 16.
C24_HandValueIsBestTotal ==
    /\ pc = "valued" => result = ReturnInt(BestTotal(player_hand))
    /\ calculate_hand_value(<<<<"A", "Hearts">>, <<"A", "Spades">>, <<"9", "Clubs">>>>) = 21
    /\ calculate_hand_value(<<<<"A", "Hearts">>, <<"5", "Spades">>, <<"10", "Clubs">>>>) = 16

\* three aces were valued 13: one ace counts 11 and two count 1
C24_Witness ==
    /\ pc = "valued"
    /\ Len(player_hand) = 3
    /\ \A j \in 1..3 : player_hand[j][1] = "A"
    /\ result = ReturnInt(13)

(* ------------------------------- C25 ----------------------------------- *)
\* the permutations of 1..n, for every length of hand
HandPermutations ==
    [n \in 0..MaxHandLen |->
        {g \in [1..n -> 1..n] : \A a, b \in 1..n : a # b => g[a] # g[b]}]

\* the cards of hand in the order f
Reordered(hand, f) == [n \in 1..Len(hand) |-> hand[f[n]]]

\* C25: a hand has the same value in every order of its cards, and valuing a
\* hand leaves the hand as it was.
C25_HandValueIgnoresOrder ==
    /\ [](pc = "valued" =>
            \A f \in HandPermutations[Len(player_hand)] :
                calculate_hand_value(Reordered(player_hand, f)) = result.value)
    /\ [][(pc = "valued" /\ pc' = "valued") => result' = result]_vars
    /\ [][(pc = "hand" /\ pc' = "valued") => player_hand' = player_hand]_vars

\* a hand of an ace, a king and a 5 was valued 16 with the ace in the middle
C25_Witness ==
    /\ pc = "valued"
    /\ Len(player_hand) = 3
    /\ <<player_hand[1][1], player_hand[2][1], player_hand[3][1]>> = <<"K", "A", "5">>
    /\ result = ReturnInt(16)

(* ------------------------------- C26 ----------------------------------- *)
\* C26: a hand is a blackjack exactly when it has two cards worth 21, that is
\* an ace and a 10, J, Q or K in either order; 10, 5, 6 is worth 21 and is no
\* blackjack.
C26_BlackjackIsTwoCardsWorth21 ==
    /\ pc = "valued" =>
          /\ player_blackjack = (Len(player_hand) = 2 /\ result.value = 21)
          /\ player_blackjack =
                (/\ Len(player_hand) = 2
                 /\ \E a, b \in 1..2 :
                       /\ a # b
                       /\ player_hand[a][1] = "A"
                       /\ player_hand[b][1] \in {"10", "J", "Q", "K"})
    /\ ~ is_blackjack(<<<<"10", "Hearts">>, <<"5", "Spades">>, <<"6", "Clubs">>>>)
    /\ is_blackjack(<<<<"A", "Hearts">>, <<"K", "Spades">>>>)

\* 10, 5, 6 was valued 21 and found to be no blackjack
C26_Witness ==
    /\ pc = "valued"
    /\ Len(player_hand) = 3
    /\ <<player_hand[1][1], player_hand[2][1], player_hand[3][1]>> = <<"10", "5", "6">>
    /\ result = ReturnInt(21)
    /\ ~ player_blackjack

\* a queen and an ace were found to be a blackjack
C26_BlackjackWitness ==
    /\ pc = "valued"
    /\ Len(player_hand) = 2
    /\ <<player_hand[1][1], player_hand[2][1]>> = <<"Q", "A">>
    /\ player_blackjack

(* ------------------------------- C27 ----------------------------------- *)
\* C27: a round whose player goes on giving accepted decisions returns; what
\* it returns is an integer or None, and None only when the last answer was a
\* confirmed quit; until it returns, a step that is no quit is possible at
\* every prompt and every statement.
C27_RoundReturnsIntegerOrQuits ==
    /\ <>(pc = "done")
    /\ [](pc = "done" <=> result # Pending)
    /\ [](result.kind \in {"pending", "int", "None"})
    /\ [](result.kind = "None" =>
            /\ inputs # <<>>
            /\ inputs[Len(inputs)][2] = "quit")
    /\ []((pc # "done" /\ ~confirming) => ENABLED Advance)
    /\ [][(result' # result /\ result'.kind = "None") => confirming]_vars

\* a round played to the settlement: the player hit and stood, the dealer drew
C27_Witness ==
    /\ pc = "done"
    /\ result.kind = "int"
    /\ Len(player_hand) >= 3
    /\ Len(dealer_hand) >= 3
    /\ \E j \in 1..Len(inputs) : inputs[j] = <<"play", "s">>

(* ------------------------------- C28 ----------------------------------- *)
\* C28: the balance a round returns is never negative.
C28_ReturnedBalanceNeverNegative ==
    Returned => result.value >= 0

(* ------------------------------- C29 ----------------------------------- *)
\* C29: at every bet prompt of a session the balance is at least 1 and some
\* bet is accepted; the round is started with 50 when the balance was 0 or
\* less and with the balance as it was when it was positive.
C29_BetPromptHasPositiveBalance ==
    /\ [](pc = "bet" =>
            /\ rocks >= 1
            /\ \E bet_input \in BetInputs :
                   get_valid_bet(rocks, bet_input, FALSE).ret = "bet")
    /\ [][(pc = "loop" /\ pc' = "bet") =>
            /\ rocks' = (IF main_rocks <= 0 THEN 50 ELSE main_rocks)
            /\ main_rocks' = rocks'
            /\ rocks_in' = rocks']_vars

\* the first round left nothing and the second is played with 50
C29_Witness ==
    /\ pc = "bet"
    /\ rounds = 2
    /\ rocks = 50
    /\ main_rocks = 50

(* ------------------------------- C30 ----------------------------------- *)
\* C30: the dealer's turn ends, with a value from 17 to 26; every card drawn
\* is the card the shoe hands out and raises the total of the hand with every
\* ace counted as 1, and no dealer hand has more than 12 cards.
C30_DealerTurnEndsWithin12Cards ==
    /\ <>(pc = "dealer_done")
    /\ [](pc = "dealer_done" => calculate_hand_value(dealer_hand) \in 17..26)
    /\ [](pc \in {"dealer_turn", "dealer_done"} => Len(dealer_hand) <= 12)
    /\ [][(pc = "dealer_turn" /\ dealer_hand' # dealer_hand) =>
            /\ Len(dealer_hand') = Len(dealer_hand) + 1
            /\ SubSeq(dealer_hand', 1, Len(dealer_hand)) = dealer_hand
            /\ deck # <<>> =>
                  /\ dealer_hand'[Len(dealer_hand')] = deck[Len(deck)]
                  /\ deck' = SubSeq(deck, 1, Len(deck) - 1)
            /\ deck = <<>> => Len(deck') = total_cards_in_deck - 1
            /\ HardTotal(dealer_hand') > HardTotal(dealer_hand)
            /\ HardTotal(dealer_hand) <= 16]_vars

\* eleven aces and a 6 make a hand of 12 cards, on which the dealer stops at 17
C30_Witness ==
    /\ pc = "dealer_done"
    /\ Len(dealer_hand) = 12
    /\ calculate_hand_value(dealer_hand) = 17
    /\ drawn = 10
    /\ deck = <<>>

\* the dealer drew the last card of a new shoe and went on drawing from it
C30_RefilledWitness ==
    /\ pc = "dealer_done"
    /\ drawn >= 2
    /\ Len(deck) > MaxShoe
    /\ Len(deck) <= total_cards_in_deck - 2

\* a hand worth 16, an ace counted 11, was worth 12 after the card drawn last
C30_ValueDecreasedWitness ==
    /\ pc = "dealer_turn"
    /\ Len(dealer_hand) = 3
    /\ calculate_hand_value(SubSeq(dealer_hand, 1, 2)) = 16
    /\ calculate_hand_value(dealer_hand) = 12

(* ------------------------------- C31 ----------------------------------- *)
\* C31: a hand in its turn is prompted exactly when its value is at most 21,
\* and at the prompt both a hit and a stand are possible; a hit adds one card
\* to the hand and raises its total with every ace as 1; a stand adds none and
\* hands the value of the hand to the settlement; no turn has more than 21 hits.
C31_TurnPromptsUpTo21AndEnds ==
    /\ []((pc = "turn" /\ ~confirming) =>
            /\ ENABLED TurnChoice <=> calculate_hand_value(player_hand) <= 21
            /\ ENABLED TurnBust <=> calculate_hand_value(player_hand) > 21
            /\ calculate_hand_value(player_hand) <= 21 =>
                  (ENABLED (TurnChoice /\ drawn' = drawn + 1)
                     /\ ENABLED (TurnChoice /\ pc' = "turn_stood")))
    /\ [][(pc = "turn" /\ drawn' # drawn) =>
            /\ drawn' = drawn + 1
            /\ Len(player_hand') = Len(player_hand) + 1
            /\ SubSeq(player_hand', 1, Len(player_hand)) = player_hand
            /\ deck # <<>> =>
                  /\ player_hand'[Len(player_hand')] = deck[Len(deck)]
                  /\ deck' = SubSeq(deck, 1, Len(deck) - 1)
            /\ deck = <<>> => Len(deck') = total_cards_in_deck - 1
            /\ HardTotal(player_hand') >= HardTotal(player_hand) + 1
            /\ pc' = "turn"]_vars
    /\ [][(pc = "turn" /\ pc' = "turn_stood") =>
            /\ player_hand' = player_hand
            /\ deck' = deck
            /\ drawn' = drawn
            /\ result' = ReturnInt(calculate_hand_value(player_hand))]_vars
    /\ [](pc \in {"turn", "turn_stood", "turn_bust", "done"} =>
            /\ Len(player_hand) = drawn + 2
            /\ drawn <= 21)

\* 22 aces: the hand was hit 20 times, the last time at 21, and is bust
C31_Witness ==
    /\ pc = "turn_bust"
    /\ drawn = 20
    /\ calculate_hand_value(SubSeq(player_hand, 1, 21)) = 21
    /\ calculate_hand_value(player_hand) = 22
    /\ deck = <<>>

\* a hand was hit from an empty shoe, which was refilled, and the turn was
\* then left by a confirmed quit
C31_QuitWitness ==
    /\ pc = "done"
    /\ result = ReturnNone
    /\ drawn >= 1
    /\ Len(deck) = total_cards_in_deck - drawn

\* a hand hit at 21 stood on 21 with three cards
C31_HitAt21Witness ==
    /\ pc = "turn_stood"
    /\ drawn = 1
    /\ calculate_hand_value(SubSeq(player_hand, 1, 2)) = 21
    /\ result = ReturnInt(21)

\* the same in the round: at the prompt of the unsplit hand and of a split
\* hand, 'h' takes one card from the shoe into the hand and 's' takes none
C31_HitAndStandInTheRound ==
    /\ []((pc = "play" /\ ~confirming) =>
            (ENABLED PlayerChoice <=> calculate_hand_value(player_hand) <= 21))
    /\ []((pc = "split_play" /\ ~confirming) =>
            (ENABLED SplitChoice <=> calculate_hand_value(player_hand) <= 21))
    /\ [][(\E prompt \in {"play", "split_play"} :
                inputs' = Append(inputs, <<prompt, "h">>)) =>
            /\ drawn' = drawn + 1
            /\ Len(player_hand') = Len(player_hand) + 1
            /\ SubSeq(player_hand', 1, Len(player_hand)) = player_hand
            /\ pc' = pc]_vars
    /\ [][(\E prompt \in {"play", "split_play"} :
                inputs' = Append(inputs, <<prompt, "s">>)) =>
            /\ drawn' = drawn
            /\ deck' = deck
            /\ split_hands' = split_hands
            /\ pc = "play" => player_hand' = player_hand]_vars

(* ------------------------------- C32 ----------------------------------- *)
\* the cards in the hands of the round
HeldCards ==
    Len(dealer_hand) +
    (IF split_hands # <<>> THEN Len(split_hands[1]) + Len(split_hands[2])
     ELSE Len(player_hand))

InRound == pc \notin {"loop", "again", "ended"}

\* C32: in a session every bet is placed with at least 63 cards in the shoe
\* and a round draws at most 62; so every card dealt is popped from the shoe
\* as it is, the shoe is never found empty, and the cards in the hands are
\* the cards that left the shoe.
C32_SessionNeverFindsShoeEmpty ==
    /\ [](pc = "bet" => Len(deck) >= 63)
    /\ [](InRound =>
            /\ drawn <= 62
            /\ drawn = HeldCards
            /\ Len(deck) >= 63 - drawn
            /\ deck # <<>>
            /\ Len(player_hand) <= 22
            /\ Len(dealer_hand) <= 12)
    /\ [][(InRound /\ drawn' # drawn) =>
            /\ drawn' > drawn
            /\ Len(deck) >= drawn' - drawn
            /\ deck' = SubSeq(deck, 1, Len(deck) - (drawn' - drawn))]_vars
    /\ [][(InRound /\ drawn' = drawn) => deck' = deck]_vars

\* both split hands were hit until bust and the dealer played: 38 cards drawn
C32_Witness ==
    /\ pc = "done"
    /\ split_hands # <<>>
    /\ calculate_hand_value(split_hands[1]) > 21
    /\ calculate_hand_value(split_hands[2]) > 21
    /\ Len(dealer_hand) > 2
    /\ drawn >= 38
    /\ Len(deck) = 63 - drawn

(* ------------------------------- C33 ----------------------------------- *)
\* the round took neither insurance nor a split nor a double down
PlainRound ==
    /\ ~Took("insurance", "y")
    /\ ~Took("split", "y")
    /\ ~Took("play", "d")

\* the h/s choices of the round, in order
HitStandChoices ==
    LET IsPlay(e) == e[1] = "play"
        plays == SelectSeq(inputs, IsPlay)
    IN  [n \in 1..Len(plays) |-> plays[n][2]]

Reverse(seq) == [n \in 1..Len(seq) |-> seq[Len(seq) + 1 - n]]

\* the cards of a plain round in the order they were drawn
DrawnCards ==
    <<player_hand[1], dealer_hand[1], player_hand[2], dealer_hand[2]>>
        \o SubSeq(player_hand, 3, Len(player_hand))
        \o SubSeq(dealer_hand, 3, Len(dealer_hand))

\* the deck the plain round was called with, and the shuffle run when it was
\* found empty
StartDeck ==
    IF drawn <= DeckLen THEN deck \o Reverse(DrawnCards)
    ELSE Reverse(SubSeq(DrawnCards, 1, DeckLen))

ShuffleUsed ==
    IF drawn <= DeckLen THEN 1
    ELSE CHOOSE k \in 1..NumShuffles :
            FreshDecks[k] = deck \o Reverse(SubSeq(DrawnCards, DeckLen + 1, drawn))

\* C33: a round of the rich variant that returned without insurance, split or
\* double down returns the balance, leaves the deck and holds the hands that
\* the simple variant does on the same deck, balance, bet, choices and shuffle.
C33_PlainRoundAsInSimpleVariant ==
    (Returned /\ PlainRound) =>
        /\ Len(StartDeck) = DeckLen
        /\ LET simple == SimpleRound(StartDeck, rocks_in, bet, HitStandChoices, ShuffleUsed)
           IN  /\ simple.ret = result.value
               /\ simple.deck = deck
               /\ simple.player_hand = player_hand
               /\ simple.dealer_hand = dealer_hand

\* insurance and split were declined, the player hit and stood, the dealer drew
\* from the new shoe
C33_Witness ==
    /\ Returned
    /\ PlainRound
    /\ Took("insurance", "n")
    /\ Took("play", "h")
    /\ Took("play", "s")
    /\ Len(dealer_hand) > 2
    /\ drawn > DeckLen

\* a pair was not split
C33_SplitDeclinedWitness ==
    /\ Returned
    /\ PlainRound
    /\ Took("split", "n")
    /\ Took("play", "s")


(* ------------------------------- C34 ----------------------------------- *)
\* a split hand of exactly two cards worth 21 that beats the dealer: the dealer
\* ended below 21 or bust
SplitTwentyOne(h) ==
    /\ Len(split_hands[h]) = 2
    /\ calculate_hand_value(split_hands[h]) = 21
    /\ calculate_hand_value(dealer_hand) # 21

\* C34: a split hand that stands on a two-card 21 and beats the dealer is paid 1:1
\* on the original bet, never 3:2: the net change of the round, ignoring the
\* insurance stake, is +bet for that hand plus what the other hand wins or loses.
C34_SplitTwentyOnePaidEvenMoney ==
    (Returned /\ Took("split", "y"))
        => \A h \in 1..2 :
             SplitTwentyOne(h)
                => Net + insurance_bet
                     = bet + ClaimedHandNet(calculate_hand_value(split_hands[3 - h]),
                                            calculate_hand_value(dealer_hand), bet)

\* C34, the part the code keeps: a split hand worth 21 with its two cards is not a
\* natural blackjack; the round does not return, the hand is at its hit/stand
\* prompt, and it can still be hit.
C34_SplitTwentyOneStillPrompted ==
    (pc = "split_play" /\ ~confirming /\ Len(player_hand) = 2
        /\ calculate_hand_value(player_hand) = 21)
        => /\ result = Pending
           /\ ENABLED SplitChoice
           /\ ENABLED (SplitChoice /\ Len(player_hand') = 3)

\* C34, the credit of the code: a winning two-card 21 adds 2 * bet to the winnings,
\* as every other winning split hand does, and the 3:2 premium is never added.
C34_SplitTwentyOneCreditedTwiceBet ==
    (Returned /\ Took("split", "y"))
        => \A h \in 1..2 :
             SplitTwentyOne(h)
                => result.value
                     = rocks + 2 * bet
                        + SplitHandWinnings(calculate_hand_value(split_hands[3 - h]),
                                            calculate_hand_value(dealer_hand), bet)

\* both split hands stood on a two-card 21 and beat the dealer, at a bet where 3:2
\* and 1:1 differ
C34_Witness ==
    /\ Returned /\ Took("split", "y")
    /\ SplitTwentyOne(1) /\ SplitTwentyOne(2)
    /\ bet = 2
    /\ BlackjackPayout(bet) # bet


(* ------------------------------- C35 ----------------------------------- *)
\* the answers a prompt does not recognise: neither a quit word nor one of its
\* choices ('d' is a choice only where double down is offered)
Unrecognised(prompt) ==
    Choices \ ({"quit"}
               \cup (IF prompt \in {"insurance", "split"} THEN {"y", "n"} ELSE {"h", "s"})
               \cup (IF prompt = "play" /\ DoubleOffered THEN {"d"} ELSE {}))

\* the step on the answer of the player at the prompt the round is at
Answered(choice) ==
    /\ ~confirming
    /\ \/ pc = "insurance" /\ InsuranceAnswer(choice)
       \/ pc = "split" /\ \E k \in 1..NumShuffles : SplitAnswer(choice, k)
       \/ pc = "split_play" /\ calculate_hand_value(player_hand) <= 21
            /\ \E k \in 1..NumShuffles : SplitHandAnswer(choice, k)
       \/ pc = "play" /\ calculate_hand_value(player_hand) <= 21
            /\ \E k \in 1..NumShuffles : PlayerAnswer(choice, k)

\* balance, bet, hands and deck are as before, and the round is at the same prompt
SameDecision ==
    UNCHANGED <<rocks, bet, insurance_bet, player_hand, dealer_hand, split_hands,
                deck, pc, i, confirming, result>>

\* the round waits for an answer
AtPrompt ==
    /\ ~confirming
    /\ \/ pc \in {"insurance", "split"}
       \/ pc \in {"split_play", "play"} /\ calculate_hand_value(player_hand) <= 21

\* C35: an unrecognised answer at the insurance, split or hit/stand/double prompt
\* can always be given and changes neither the balance, the bet, the hands nor
\* the deck and leaves the round at the same prompt; every step that draws n
\* cards without finding the deck short pops the last n cards and keeps the rest
\* in order; so a round that drew no more than the deck held ends with the deck
\* shorter by exactly the cards in the dealer's and the player's hands.
C35_FrameOfARound ==
    /\ [](AtPrompt => \A c \in Unrecognised(pc) : ENABLED (Answered(c) /\ SameDecision))
    /\ [][\A c \in Unrecognised(pc) : Answered(c) => SameDecision]_vars
    /\ [][LET n == HeldCards' - HeldCards
          IN  /\ n >= 0
              /\ n <= Len(deck) => deck' = SubSeq(deck, 1, Len(deck) - n)]_vars
    /\ [](HeldCards = drawn)
    /\ []((pc = "done" /\ drawn <= DeckLen) => Len(deck) = DeckLen - HeldCards)

\* a round ended, after a hit and a stand and with insurance declined, with one
\* card left of the deck it was called with
C35_Witness ==
    /\ Returned
    /\ Took("play", "h")
    /\ Took("play", "s")
    /\ HeldCards = DeckLen - 1
    /\ Len(deck) = 1

\* a split round ended having drawn the whole deck and no more
C35_SplitWitness ==
    /\ Returned
    /\ Took("split", "y")
    /\ HeldCards = DeckLen
    /\ deck = <<>>

\* the prompt of a three-card hand, where 'd' is not a choice
C35_PromptWitness ==
    /\ pc = "play"
    /\ AtPrompt
    /\ Len(player_hand) = 3
    /\ can_double_down
    /\ "d" \in Unrecognised(pc)
    /\ ENABLED (Answered("d") /\ SameDecision)

====
